---- MODULE Spec2Model ----
(***************************************************************************)
(* Aegis portal: the token ledger (TokenService), the access policy        *)
(* (TokenService.check_access) and the subscription lifecycle handlers     *)
(* of StripeService, as a state machine over the relational store.         *)
(*                                                                         *)
(* Tables: users (one row per user id), subscriptions and token_ledger     *)
(* (rows in insertion order).  A row of a sequence-valued table is named   *)
(* by its index; index 0 stands for Python's None.                         *)
(***************************************************************************)
EXTENDS Integers, Sequences, FiniteSets

VARIABLES
    users,            \* users table: id -> [token_balance, lifetime_license]
    subscriptions,    \* subscriptions table, rows in insertion order
    token_ledger,     \* token_ledger table, rows in creation order
    call,             \* the operation performed last, with its arguments
    result,           \* what that operation returned
    initial_balance,  \* history: token_balance of user 1 at construction
    spent,            \* history: sum of tokensUsed over successful spends
    credited,         \* history: sum of the amounts passed to credit
    sessions,         \* the request-scoped sessions of concurrent spend requests
    response,         \* the HTTP response of the last portal endpoint request
    client            \* the desktop client: StatusChecker and MainWindow fields

vars == <<users, subscriptions, token_ledger, call, result,
          initial_balance, spent, credited, sessions, response, client>>

----------------------------------------------------------------------------
(* Bounds of the model *)

\* most rows the token_ledger table holds
MaxLedger == 2

----------------------------------------------------------------------------
(* Program constants *)

token_costs_vibe_check == 100
token_costs_context_sync == 10
token_costs_agent_relay == 5
default_token_balance == 5000

billing_url == "https://aegissolutions.co.uk/billing"

NoneStr == "None"

\* no endpoint request was served yet
NoResponse == [status_code |-> 0]

\* no desktop client is part of the run
NoClient == [pc |-> "absent"]

PlanType == {"free", "pro", "lifetime"}
SubscriptionStatus == {"trialing", "active", "cancelled", "expired", "lifetime"}
\* an enum that also has the member "bogus"
TokenAction_open ==
    {"credit", "debit", "signup_bonus", "purchase",
     "vibe_check", "context_sync", "agent_relay", "bogus"}

TokenAction == {"credit", "debit", "signup_bonus", "purchase",
                "vibe_check", "context_sync", "agent_relay"}

\* TokenService.COSTS: a dict over three of the seven actions
COSTS == [a \in {"vibe_check", "context_sync", "agent_relay"} |->
            CASE a = "vibe_check" -> token_costs_vibe_check
              [] a = "context_sync" -> token_costs_context_sync
              [] a = "agent_relay" -> token_costs_agent_relay]

\* dict.get(key, default)
Get(d, key, default) == IF key \in DOMAIN d THEN d[key] ELSE default

----------------------------------------------------------------------------
(* Inputs *)

\* the user ids that have a row in users
Users == {1}

\* email of the user with id 1, and the emails a checkout request can carry
FirstEmail == "first@example.com"
CheckoutEmails == {FirstEmail, "second@example.com"}

\* token_balance of the user row when the observed operations start: the
\* column default for a new user, or what earlier operations left
InitBalances == {0, 1, default_token_balance}

\* amounts passed to credit_tokens (amount: int, not validated by the code)
CreditAmounts == {-5, 0, 100}

\* actions passed to credit_tokens
CreditActions == {"purchase"}

\* metadata.user_id of a checkout session: 0 when the key is missing,
\* 2 an id with no row in users
SessionUserIds == {0, 1, 2}

\* metadata.plan of a checkout session
SessionPlans == {"pro", "lifetime"}

\* billing-subscription reference of a subscription-mode checkout session
SubRefs == {"sub_A"}

\* billing-subscription references of subscription events: sub_X is a
\* reference no checkout session of the model carried
EventRefs == {"sub_A", "sub_X"}

\* period ends of a billing subscription, as opaque timestamps: the end of
\* the period the checkout started, and the end of a later period
FirstPeriodEnd == "period_1"
PeriodEnds == {FirstPeriodEnd, "period_2"}

\* provider-side status strings of a subscription event
ProviderStatuses == {"active", "trialing", "canceled", "past_due", "unpaid",
                     "incomplete"}

----------------------------------------------------------------------------
(* Queries *)

\* select(Subscription).where(Subscription.user_id == user_id)
SubscriptionsOfUser(user_id) ==
    {i \in 1..Len(subscriptions) : subscriptions[i].user_id = user_id}

\* Result.scalar_one_or_none(): the one row, or None (0)
scalar_one_or_none(rows) ==
    IF rows = {} THEN 0 ELSE CHOOSE i \in rows : TRUE

\* the ledger rows of one user, in creation order
RECURSIVE LedgerOf(_, _)
LedgerOf(ledger, user_id) ==
    IF ledger = <<>> THEN <<>>
    ELSE IF Head(ledger).user_id = user_id
         THEN <<Head(ledger)>> \o LedgerOf(Tail(ledger), user_id)
         ELSE LedgerOf(Tail(ledger), user_id)

----------------------------------------------------------------------------
(* TokenService.check_access(user): the access policy.  user is a row of   *)
(* users with its id; the subscription is read from the store.             *)

\* mutant: lifetime is decided from the subscription row, not from the flag
check_access_row_lifetime(user) ==
    LET subscription == scalar_one_or_none(SubscriptionsOfUser(user.id))
        plan == IF subscription # 0 THEN subscriptions[subscription].plan ELSE "free"
        status == IF subscription # 0 THEN subscriptions[subscription].status
                  ELSE "trialing"
    IN  IF plan = "lifetime" /\ status = "lifetime"
        THEN [allowed |-> TRUE, balance |-> -1, plan |-> "lifetime",
              status |-> "lifetime", lifetimeLicense |-> TRUE]
        ELSE IF plan = "pro" /\ status = "active"
        THEN [allowed |-> TRUE, balance |-> -1, plan |-> "pro",
              status |-> "active", lifetimeLicense |-> FALSE]
        ELSE IF user.token_balance <= 0
        THEN [allowed |-> FALSE, balance |-> 0, plan |-> "free",
              status |-> "expired",
              message |-> "Free trial expired. Upgrade to continue.",
              upgradeUrl |-> billing_url, lifetimeLicense |-> FALSE]
        ELSE [allowed |-> TRUE, balance |-> user.token_balance, plan |-> "free",
              status |-> "trialing", lifetimeLicense |-> FALSE]

\* mutant: the pro rule looks at the plan alone, not at the status
check_access_plan_only(user) ==
    LET subscription == scalar_one_or_none(SubscriptionsOfUser(user.id))
        plan == IF subscription # 0 THEN subscriptions[subscription].plan ELSE "free"
    IN  IF user.lifetime_license
        THEN [allowed |-> TRUE, balance |-> -1, plan |-> "lifetime",
              status |-> "lifetime", lifetimeLicense |-> TRUE]
        ELSE IF plan = "pro"
        THEN [allowed |-> TRUE, balance |-> -1, plan |-> "pro",
              status |-> "active", lifetimeLicense |-> FALSE]
        ELSE IF user.token_balance <= 0
        THEN [allowed |-> FALSE, balance |-> 0, plan |-> "free",
              status |-> "expired",
              message |-> "Free trial expired. Upgrade to continue.",
              upgradeUrl |-> billing_url, lifetimeLicense |-> FALSE]
        ELSE [allowed |-> TRUE, balance |-> user.token_balance, plan |-> "free",
              status |-> "trialing", lifetimeLicense |-> FALSE]

\* mutant: the free tier allows a zero balance and reports a negative one raw
check_access_raw_balance(user) ==
    LET subscription == scalar_one_or_none(SubscriptionsOfUser(user.id))
        plan == IF subscription # 0 THEN subscriptions[subscription].plan ELSE "free"
        status == IF subscription # 0 THEN subscriptions[subscription].status
                  ELSE "trialing"
    IN  IF user.lifetime_license
        THEN [allowed |-> TRUE, balance |-> -1, plan |-> "lifetime",
              status |-> "lifetime", lifetimeLicense |-> TRUE]
        ELSE IF plan = "pro" /\ status = "active"
        THEN [allowed |-> TRUE, balance |-> -1, plan |-> "pro",
              status |-> "active", lifetimeLicense |-> FALSE]
        ELSE IF user.token_balance < 0
        THEN [allowed |-> FALSE, balance |-> user.token_balance, plan |-> "free",
              status |-> "expired",
              message |-> "Free trial expired. Upgrade to continue.",
              upgradeUrl |-> billing_url, lifetimeLicense |-> FALSE]
        ELSE [allowed |-> TRUE, balance |-> user.token_balance, plan |-> "free",
              status |-> "trialing", lifetimeLicense |-> FALSE]

check_access(user) ==
    IF user.lifetime_license
    THEN [allowed |-> TRUE, balance |-> -1, plan |-> "lifetime",
          status |-> "lifetime", lifetimeLicense |-> TRUE]
    ELSE
    LET subscription == scalar_one_or_none(SubscriptionsOfUser(user.id))
        plan == IF subscription # 0 THEN subscriptions[subscription].plan ELSE "free"
        status == IF subscription # 0 THEN subscriptions[subscription].status
                  ELSE "trialing"
    IN  IF plan = "pro" /\ status = "active"
        THEN [allowed |-> TRUE, balance |-> -1, plan |-> "pro",
              status |-> "active", lifetimeLicense |-> FALSE]
        ELSE IF user.token_balance <= 0
        THEN [allowed |-> FALSE, balance |-> 0, plan |-> "free",
              status |-> "expired",
              message |-> "Free trial expired. Upgrade to continue.",
              upgradeUrl |-> billing_url, lifetimeLicense |-> FALSE]
        ELSE [allowed |-> TRUE, balance |-> user.token_balance, plan |-> "free",
              status |-> "trialing", lifetimeLicense |-> FALSE]

\* the ORM object of a users row: the row with its primary key
UserObject(user_id) ==
    [id |-> user_id,
     token_balance |-> users[user_id].token_balance,
     lifetime_license |-> users[user_id].lifetime_license]

----------------------------------------------------------------------------
(* TokenService.spend_tokens(user, action) *)

\* cost = self.COSTS.get(action, 0)
CostOf(action) == Get(COSTS, action, 0)

\* mutant: the balance check is missing
Insufficient_unchecked(cost, token_balance) == FALSE

\* if cost > user.token_balance
Insufficient(cost, token_balance) == cost > token_balance

\* mutant: the deduction takes one token too many
Deduct_one_more(token_balance, cost) == token_balance - cost - 1

\* new_balance = user.token_balance - cost
Deduct(token_balance, cost) == token_balance - cost

\* mutant: the entry records the balance before the change
BalanceAfter_stale(old_balance, new_balance) == old_balance

\* balance_after=new_balance
BalanceAfter(old_balance, new_balance) == new_balance

\* mutant: the not-allowed path drops the upgrade hint
SpendDenied_no_hint(access) ==
    [success |-> FALSE, error |-> "insufficient_tokens", balance |-> 0,
     message |-> Get(access, "message", "No tokens remaining"),
     upgradeUrl |-> NoneStr]

\* the result of spend_tokens when check_access does not allow
SpendDenied(access) ==
    [success |-> FALSE, error |-> "insufficient_tokens", balance |-> 0,
     message |-> Get(access, "message", "No tokens remaining"),
     upgradeUrl |-> Get(access, "upgradeUrl", NoneStr)]

\* the result of spend_tokens on an unlimited plan
SpendUnlimited(access) ==
    [success |-> TRUE, tokensUsed |-> 0, balance |-> -1, plan |-> access.plan]

\* the result of spend_tokens when the cost exceeds the balance
SpendShort(cost, token_balance) ==
    [success |-> FALSE, error |-> "insufficient_tokens",
     balance |-> token_balance, required |-> cost,
     message |-> "This action requires more tokens than you have",
     upgradeUrl |-> billing_url]

\* mutant: the entry records the cost unsigned
EntryAmount_unsigned(cost) == cost

\* amount=-cost
EntryAmount(cost) == -cost

\* TokenLedger(user_id, action, amount, balance_after)
LedgerEntry(user_id, action, amount, balance_after) ==
    [user_id |-> user_id, action |-> action, amount |-> amount,
     balance_after |-> balance_after]

\* spend_tokens up to its commit, on the session's user object: which of
\* the four paths is taken, the result returned, and for the deducting path
\* the balance set on the object and the entry added to the session
SpendOutcome(user, action) ==
    LET access == check_access(user)
        cost == CostOf(action)
        new_balance == Deduct(user.token_balance, cost)
    IN  IF ~access.allowed
        THEN [path |-> "denied", result |-> SpendDenied(access)]
        ELSE IF access.balance = -1
        THEN [path |-> "unlimited", result |-> SpendUnlimited(access)]
        ELSE IF Insufficient(cost, user.token_balance)
        THEN [path |-> "short", result |-> SpendShort(cost, user.token_balance)]
        ELSE [path |-> "deduct",
              result |-> [success |-> TRUE, tokensUsed |-> cost,
                          balance |-> new_balance, plan |-> "free"],
              token_balance |-> new_balance,
              ledger_entry |->
                  LedgerEntry(user.id, action, EntryAmount(cost),
                              BalanceAfter(user.token_balance, new_balance))]

\* one request served alone: the user row is loaded, spent on and committed
\* with no other request in between
spend_tokens(user_id, action) ==
    LET outcome == SpendOutcome(UserObject(user_id), action)
    IN  /\ call' = [op |-> "spend", user_id |-> user_id, action |-> action]
        /\ result' = outcome.result
        /\ UNCHANGED <<subscriptions, initial_balance, credited, sessions>>
        /\ IF outcome.path = "deduct"
           THEN /\ users' = [users EXCEPT
                                ![user_id].token_balance = outcome.token_balance]
                /\ token_ledger' = Append(token_ledger, outcome.ledger_entry)
                /\ spent' = spent + outcome.result.tokensUsed
           ELSE UNCHANGED <<users, token_ledger, spent>>

Spend ==
    \E user_id \in Users, action \in TokenAction :
        /\ Len(token_ledger) < MaxLedger
        /\ spend_tokens(user_id, action)
        /\ UNCHANGED <<response, client>>

----------------------------------------------------------------------------
(* TokenService.credit_tokens(user, amount, action) *)

\* new_balance = user.token_balance + amount
CreditSum(token_balance, amount) == token_balance + amount

credit_tokens(user_id, amount, action) ==
    LET user == UserObject(user_id)
        new_balance == CreditSum(user.token_balance, amount)
    IN  /\ call' = [op |-> "credit", user_id |-> user_id, action |-> action,
                    amount |-> amount]
        /\ users' = [users EXCEPT ![user_id].token_balance = new_balance]
        /\ token_ledger' = Append(token_ledger,
               LedgerEntry(user_id, action, amount,
                           BalanceAfter(user.token_balance, new_balance)))
        /\ result' = [success |-> TRUE, tokensAdded |-> amount,
                      balance |-> new_balance]
        /\ credited' = credited + amount
        /\ UNCHANGED <<subscriptions, initial_balance, spent, sessions>>

Credit ==
    \E user_id \in Users, amount \in CreditAmounts, action \in CreditActions :
        /\ Len(token_ledger) < MaxLedger
        /\ credit_tokens(user_id, amount, action)
        /\ UNCHANGED <<response, client>>

----------------------------------------------------------------------------
(* StripeService: the subscription lifecycle handlers *)

\* mutant: an event whose reference no row carries is applied to every row
SubscriptionsByRef_or_all(id) ==
    IF \E i \in 1..Len(subscriptions) : subscriptions[i].stripe_subscription_id = id
    THEN {i \in 1..Len(subscriptions) : subscriptions[i].stripe_subscription_id = id}
    ELSE 1..Len(subscriptions)

\* select(Subscription).where(Subscription.stripe_subscription_id == id)
SubscriptionsByRef(id) ==
    {i \in 1..Len(subscriptions) : subscriptions[i].stripe_subscription_id = id}

\* Subscription(user_id=user_id), with the column defaults
NewSubscription(user_id) ==
    [user_id |-> user_id, plan |-> "free", status |-> "trialing",
     stripe_subscription_id |-> NoneStr,
     current_period_end |-> NoneStr, cancel_at_period_end |-> FALSE]

\* mutant: a provider status outside the dict keeps the subscription active
status_map_default_active(provider_status) ==
    CASE provider_status = "active" -> "active"
      [] provider_status = "trialing" -> "trialing"
      [] provider_status = "canceled" -> "cancelled"
      [] OTHER -> "active"

\* status_map.get(stripe_subscription.status, SubscriptionStatus.EXPIRED)
status_map(provider_status) ==
    CASE provider_status = "active" -> "active"
      [] provider_status = "trialing" -> "trialing"
      [] provider_status = "canceled" -> "cancelled"
      [] provider_status = "past_due" -> "expired"
      [] provider_status = "unpaid" -> "expired"
      [] OTHER -> "expired"

\* the operation performed last was handle_checkout_completed(session)
LastCheckout(session) ==
    /\ call.op = "checkout_completed"
    /\ call.session = session

\* mutant: the subscription row of the user is not looked up, a row is
\* created for every event
handle_checkout_completed_always_insert(session) ==
    LET user_id == session.user_id
        found == 0
        table == IF found = 0
                 THEN Append(subscriptions, NewSubscription(user_id))
                 ELSE subscriptions
        subscription == IF found = 0 THEN Len(table) ELSE found
    IN  /\ call' = [op |-> "checkout_completed", session |-> session,
                    replay |-> LastCheckout(session)]
        /\ result' = [returned |-> NoneStr]
        /\ UNCHANGED <<token_ledger, initial_balance, spent, credited, sessions>>
        /\ IF user_id = 0 \/ user_id \notin Users
           THEN UNCHANGED <<users, subscriptions>>
           ELSE IF session.plan = "lifetime"
           THEN /\ users' = [users EXCEPT ![user_id].lifetime_license = TRUE]
                /\ subscriptions' =
                       [table EXCEPT ![subscription].plan = "lifetime",
                                     ![subscription].status = "lifetime"]
           ELSE /\ UNCHANGED users
                /\ subscriptions' =
                       [table EXCEPT ![subscription].plan = "pro",
                                     ![subscription].status = "active",
                                     ![subscription].stripe_subscription_id =
                                         session.subscription,
                                     ![subscription].current_period_end =
                                         IF session.subscription # NoneStr
                                         THEN session.current_period_end
                                         ELSE @]

\* session: [user_id, plan, subscription, current_period_end], where
\* current_period_end is the period end of the billing subscription that
\* stripe.Subscription.retrieve(session.subscription) returns; replay records
\* that the event repeats the one handled last
handle_checkout_completed(session) ==
    LET user_id == session.user_id
        found == scalar_one_or_none(SubscriptionsOfUser(user_id))
        table == IF found = 0
                 THEN Append(subscriptions, NewSubscription(user_id))
                 ELSE subscriptions
        subscription == IF found = 0 THEN Len(table) ELSE found
    IN  /\ call' = [op |-> "checkout_completed", session |-> session,
                    replay |-> LastCheckout(session)]
        /\ result' = [returned |-> NoneStr]
        /\ UNCHANGED <<token_ledger, initial_balance, spent, credited, sessions>>
        /\ IF user_id = 0 \/ user_id \notin Users
           THEN UNCHANGED <<users, subscriptions>>
           ELSE IF session.plan = "lifetime"
           THEN /\ users' = [users EXCEPT ![user_id].lifetime_license = TRUE]
                /\ subscriptions' =
                       [table EXCEPT ![subscription].plan = "lifetime",
                                     ![subscription].status = "lifetime"]
           ELSE /\ UNCHANGED users
                /\ subscriptions' =
                       [table EXCEPT ![subscription].plan = "pro",
                                     ![subscription].status = "active",
                                     ![subscription].stripe_subscription_id =
                                         session.subscription,
                                     ![subscription].current_period_end =
                                         IF session.subscription # NoneStr
                                         THEN session.current_period_end
                                         ELSE @]

\* stripe_subscription: [id, status, current_period_end,
\* cancel_at_period_end].  current_period_start is copied like
\* current_period_end and is left out of the row.
handle_subscription_updated(stripe_subscription) ==
    LET subscription ==
            scalar_one_or_none(SubscriptionsByRef(stripe_subscription.id))
    IN  /\ call' = [op |-> "subscription_updated",
                    stripe_subscription |-> stripe_subscription]
        /\ result' = [returned |-> NoneStr]
        /\ UNCHANGED <<users, token_ledger, initial_balance, spent, credited, sessions>>
        /\ IF subscription = 0
           THEN UNCHANGED subscriptions
           ELSE subscriptions' =
                    [subscriptions EXCEPT
                        ![subscription].status =
                            status_map(stripe_subscription.status),
                        ![subscription].current_period_end =
                            stripe_subscription.current_period_end,
                        ![subscription].cancel_at_period_end =
                            stripe_subscription.cancel_at_period_end]

\* mutant: a cancellation also forfeits the tokens of the user
handle_subscription_deleted_forfeit(stripe_subscription) ==
    LET subscription ==
            scalar_one_or_none(SubscriptionsByRef(stripe_subscription.id))
    IN  /\ call' = [op |-> "subscription_deleted",
                    stripe_subscription |-> stripe_subscription]
        /\ result' = [returned |-> NoneStr]
        /\ UNCHANGED <<token_ledger, initial_balance, spent, credited, sessions>>
        /\ IF subscription = 0
           THEN UNCHANGED <<users, subscriptions>>
           ELSE /\ subscriptions' =
                       [subscriptions EXCEPT ![subscription].status = "cancelled",
                                             ![subscription].plan = "free"]
                /\ users' = [users EXCEPT
                                ![subscriptions[subscription].user_id].token_balance = 0]

\* mutant: the cancellation is recorded, the plan is kept until the period end
handle_subscription_deleted_keep_plan(stripe_subscription) ==
    LET subscription ==
            scalar_one_or_none(SubscriptionsByRef(stripe_subscription.id))
    IN  /\ call' = [op |-> "subscription_deleted",
                    stripe_subscription |-> stripe_subscription]
        /\ result' = [returned |-> NoneStr]
        /\ UNCHANGED <<users, token_ledger, initial_balance, spent, credited, sessions>>
        /\ IF subscription = 0
           THEN UNCHANGED subscriptions
           ELSE subscriptions' =
                    [subscriptions EXCEPT ![subscription].cancel_at_period_end = TRUE]

\* stripe_subscription: [id]
handle_subscription_deleted(stripe_subscription) ==
    LET subscription ==
            scalar_one_or_none(SubscriptionsByRef(stripe_subscription.id))
    IN  /\ call' = [op |-> "subscription_deleted",
                    stripe_subscription |-> stripe_subscription]
        /\ result' = [returned |-> NoneStr]
        /\ UNCHANGED <<users, token_ledger, initial_balance, spent, credited, sessions>>
        /\ IF subscription = 0
           THEN UNCHANGED subscriptions
           ELSE subscriptions' =
                    [subscriptions EXCEPT ![subscription].status = "cancelled",
                                          ![subscription].plan = "free"]

\* a payment-mode (lifetime) session carries no subscription reference,
\* a subscription-mode (pro) session carries one
CheckoutCompleted ==
    \E user_id \in SessionUserIds, plan \in SessionPlans, ref \in SubRefs :
        /\ handle_checkout_completed(
               [user_id |-> user_id, plan |-> plan,
                subscription |-> IF plan = "lifetime" THEN NoneStr ELSE ref,
                current_period_end |-> IF plan = "lifetime" THEN NoneStr
                                       ELSE FirstPeriodEnd])
        /\ UNCHANGED <<response, client>>

\* events of a billing subscription in its first period that is not set to
\* cancel at the period end
SubscriptionUpdated ==
    \E id \in EventRefs, status \in ProviderStatuses :
        /\ handle_subscription_updated(
               [id |-> id, status |-> status,
                current_period_end |-> FirstPeriodEnd,
                cancel_at_period_end |-> FALSE])
        /\ UNCHANGED <<response, client>>

\* events of a billing subscription in any period, set to cancel at the period
\* end or not
SubscriptionUpdatedAnyPeriod ==
    \E id \in EventRefs, status \in ProviderStatuses,
       period_end \in PeriodEnds, at_period_end \in BOOLEAN :
        /\ handle_subscription_updated(
               [id |-> id, status |-> status,
                current_period_end |-> period_end,
                cancel_at_period_end |-> at_period_end])
        /\ UNCHANGED <<response, client>>

SubscriptionDeleted ==
    \E id \in EventRefs :
        /\ handle_subscription_deleted([id |-> id])
        /\ UNCHANGED <<response, client>>

----------------------------------------------------------------------------
(* The store after the user rows are constructed *)

Init ==
    /\ \E b \in InitBalances :
          /\ users = [u \in Users |-> [token_balance |-> b,
                                        lifetime_license |-> FALSE,
                                        email |-> FirstEmail,
                                        stripe_customer_id |-> NoneStr]]
          /\ initial_balance = b
    /\ subscriptions = <<>>
    /\ token_ledger = <<>>
    /\ call = [op |-> "none"]
    /\ result = [success |-> TRUE]
    /\ spent = 0
    /\ credited = 0
    /\ sessions = <<>>
    /\ response = NoResponse
    /\ client = NoClient

Next ==
    \/ Spend
    \/ Credit
    \/ CheckoutCompleted
    \/ SubscriptionUpdated
    \/ SubscriptionDeleted

Spec == Init /\ [][Next]_vars

\* the access policy applied to a user row of the store
CheckAccess ==
    \E user_id \in Users :
        /\ call' = [op |-> "check_access", user_id |-> user_id]
        /\ result' = check_access(UserObject(user_id))
        /\ UNCHANGED <<users, subscriptions, token_ledger, initial_balance,
                       spent, credited, sessions, response, client>>

----------------------------------------------------------------------------
(* POST /api/webhook: stripe_webhook.  A request is the Stripe-Signature   *)
(* header and the raw body; the body is JSON of an event or is not JSON.   *)

\* the header value that verifies against the body and the webhook secret
ValidSignature == "t=1,v1=good"

\* Stripe-Signature header: absent (None), empty, verifying, not verifying
WebhookSignatures == {NoneStr, "", ValidSignature, "t=1,v1=bad"}

\* event.data.object of checkout.session.completed events
CheckoutSessions ==
    {[user_id |-> user_id, plan |-> plan,
      subscription |-> IF plan = "lifetime" THEN NoneStr ELSE ref,
      current_period_end |-> IF plan = "lifetime" THEN NoneStr
                             ELSE FirstPeriodEnd] :
        user_id \in SessionUserIds, plan \in SessionPlans, ref \in SubRefs}

\* event types the endpoint only logs, and one it does not know
LoggedEventTypes == {"invoice.paid", "invoice.payment_failed"}
UnhandledEventTypes == {"customer.created"}

\* request bodies: one that is not JSON, and the events
WebhookPayloads ==
    {[json |-> FALSE]}
    \cup {[json |-> TRUE, type |-> "checkout.session.completed",
           object |-> session] : session \in CheckoutSessions}
    \cup {[json |-> TRUE, type |-> "customer.subscription.updated",
           object |-> [id |-> id, status |-> status,
                       current_period_end |-> FirstPeriodEnd,
                       cancel_at_period_end |-> FALSE]] :
               id \in EventRefs, status \in ProviderStatuses}
    \cup {[json |-> TRUE, type |-> "customer.subscription.deleted",
           object |-> [id |-> id]] : id \in EventRefs}
    \cup {[json |-> TRUE, type |-> type, object |-> [id |-> "obj_1"]] :
               type \in LoggedEventTypes \cup UnhandledEventTypes}

WebhookRequests ==
    [stripe_signature : WebhookSignatures, payload : WebhookPayloads]

\* mutant: the event is built from the body without verifying the header
construct_event_unverified(payload, sig_header) ==
    IF payload.json THEN {"Event"} ELSE {"ValueError"}

\* stripe.Webhook.construct_event(payload, sig_header, secret): the outcomes
\* the library call can have.  It verifies the header against the body and
\* parses the body; with both failing, either error may be the one raised.
construct_event(payload, sig_header) ==
    {outcome \in {"SignatureVerificationError", "ValueError", "Event"} :
        \/ outcome = "SignatureVerificationError" /\ sig_header # ValidSignature
        \/ outcome = "ValueError" /\ ~payload.json
        \/ outcome = "Event" /\ sig_header = ValidSignature /\ payload.json}

\* raise HTTPException(status_code, detail): the request ends here; what a
\* handler changed on its session objects is not committed
HTTPException(request, status_code, detail) ==
    /\ response' = [endpoint |-> "POST /api/webhook", request |-> request,
                    status_code |-> status_code, detail |-> detail]
    /\ call' = [op |-> "stripe_webhook"]
    /\ result' = [raised |-> "HTTPException"]
    /\ UNCHANGED <<users, subscriptions, token_ledger, initial_balance, spent,
                   credited, sessions, client>>

\* return {"received": True}
Received(request) ==
    /\ response' = [endpoint |-> "POST /api/webhook", request |-> request,
                    status_code |-> 200, body |-> [received |-> TRUE]]
    /\ UNCHANGED client

\* handle_checkout_completed calls stripe.Subscription.retrieve for a pro
\* session of a known user that carries a subscription reference
CallsRetrieve(session) ==
    /\ session.user_id # 0
    /\ session.user_id \in Users
    /\ session.plan # "lifetime"
    /\ session.subscription # NoneStr

\* the dispatch on event.type inside the try block; retrieve_ok tells whether a
\* call of stripe.Subscription.retrieve returns or raises
DispatchEvent(request, event, retrieve_ok) ==
    IF event.type = "checkout.session.completed"
    THEN IF CallsRetrieve(event.object) /\ ~retrieve_ok
         THEN HTTPException(request, 500, "Webhook handler error")
         ELSE /\ handle_checkout_completed(event.object)
              /\ Received(request)
    ELSE IF event.type = "customer.subscription.updated"
    THEN /\ handle_subscription_updated(event.object)
         /\ Received(request)
    ELSE IF event.type = "customer.subscription.deleted"
    THEN /\ handle_subscription_deleted(event.object)
         /\ Received(request)
    ELSE /\ call' = [op |-> "stripe_webhook"]
         /\ result' = [returned |-> NoneStr]
         /\ UNCHANGED <<users, subscriptions, token_ledger, initial_balance,
                        spent, credited, sessions>>
         /\ Received(request)

stripe_webhook(request, retrieve_ok) ==
    IF request.stripe_signature = NoneStr \/ request.stripe_signature = ""
    THEN HTTPException(request, 400, "Missing Stripe signature")
    ELSE \E outcome \in construct_event(request.payload,
                                        request.stripe_signature) :
             IF outcome = "ValueError"
             THEN HTTPException(request, 400, "Invalid payload")
             ELSE IF outcome = "SignatureVerificationError"
             THEN HTTPException(request, 400, "Invalid signature")
             ELSE DispatchEvent(request, request.payload, retrieve_ok)

StripeWebhook ==
    \E request \in WebhookRequests, retrieve_ok \in BOOLEAN :
        stripe_webhook(request, retrieve_ok)

NextWebhook == StripeWebhook

SpecWebhook == Init /\ [][NextWebhook]_vars

----------------------------------------------------------------------------
(* The billing events and the access check on their own, with events of    *)
(* any billing period                                                      *)

NextLifecycle ==
    \/ CheckoutCompleted
    \/ SubscriptionUpdatedAnyPeriod
    \/ SubscriptionDeleted
    \/ CheckAccess

SpecLifecycle == Init /\ [][NextLifecycle]_vars

----------------------------------------------------------------------------
(* GET and POST /api/check_status: the status reporter.  The user row has  *)
(* no email column in the model, so the responses carry none.              *)

\* hashlib.sha256(api_key.encode()).hexdigest()
sha256(api_key) == <<"sha256", api_key>>

\* the api_keys table: a key of user 1 in use, and one that was revoked; no
\* operation of the portal inserts or revokes a key
api_keys ==
    <<[user_id |-> 1, key_hash |-> sha256("aegis_live"), is_revoked |-> FALSE],
      [user_id |-> 1, key_hash |-> sha256("aegis_old"), is_revoked |-> TRUE]>>

\* X-API-Key header: absent (None), the two keys of the table, an unknown key
ApiKeys == {NoneStr, "aegis_live", "aegis_old", "aegis_guess"}

\* the action query parameter: absent (None), not a TokenAction, two metered
\* actions
StatusActions == {NoneStr, "bogus", "agent_relay", "vibe_check"}

\* token_balance of the user row when the status requests start
StatusBalances == {0, 1, token_costs_agent_relay, default_token_balance}

\* a lookup that does not filter on is_revoked
get_user_from_api_key_any(api_key) ==
    IF api_key = NoneStr \/ api_key = "" THEN 0
    ELSE LET api_key_obj == scalar_one_or_none(
                 {i \in 1..Len(api_keys) :
                     api_keys[i].key_hash = sha256(api_key)})
         IN  IF api_key_obj = 0 THEN 0 ELSE api_keys[api_key_obj].user_id

\* get_user_from_api_key(api_key, db): the id of the user, or None (0)
get_user_from_api_key(api_key) ==
    IF api_key = NoneStr \/ api_key = "" THEN 0
    ELSE LET api_key_obj == scalar_one_or_none(
                 {i \in 1..Len(api_keys) :
                     /\ api_keys[i].key_hash = sha256(api_key)
                     /\ api_keys[i].is_revoked = FALSE})
         IN  IF api_key_obj = 0 THEN 0
             ELSE IF api_keys[api_key_obj].user_id \in Users
                  THEN api_keys[api_key_obj].user_id
                  ELSE 0

\* raise HTTPException(status_code, detail) before the token service is used
StatusHTTPException(endpoint, request, status_code, detail) ==
    /\ response' = [endpoint |-> endpoint, request |-> request,
                    status_code |-> status_code, detail |-> detail]
    /\ call' = [op |-> "check_status"]
    /\ result' = [raised |-> "HTTPException"]
    /\ UNCHANGED <<users, subscriptions, token_ledger, initial_balance, spent,
                   credited, sessions, client>>

\* StatusResponse(allowed=..., plan=..., status=..., balance=...,
\* lifetimeLicense=..., expiresAt=...): message and upgradeUrl default to None
StatusResponse(access, expires_at) ==
    [allowed |-> access.allowed,
     plan |-> access.plan,
     status |-> Get(access, "status", "unknown"),
     balance |-> access.balance,
     lifetimeLicense |-> Get(access, "lifetimeLicense", FALSE),
     expiresAt |-> expires_at,
     message |-> NoneStr,
     upgradeUrl |-> NoneStr]

\* if not access["allowed"]: response.message = ...; response.upgradeUrl = ...
WithUpgradeHint(body, access) ==
    IF ~access.allowed
    THEN [body EXCEPT !.message = Get(access, "message", "Subscription required"),
                      !.upgradeUrl = billing_url]
    ELSE body

\* GET /api/check_status
check_status(x_api_key) ==
    LET endpoint == "GET /api/check_status"
        request == [x_api_key |-> x_api_key]
        user_id == get_user_from_api_key(x_api_key)
    IN  IF x_api_key = NoneStr \/ x_api_key = ""
        THEN StatusHTTPException(endpoint, request, 401,
                 "API key required. Pass via X-API-Key header.")
        ELSE IF user_id = 0
        THEN StatusHTTPException(endpoint, request, 401, "Invalid API key")
        ELSE LET access == check_access(UserObject(user_id))
                 subscription == scalar_one_or_none(SubscriptionsOfUser(user_id))
                 expires_at ==
                     IF subscription # 0
                     THEN subscriptions[subscription].current_period_end
                     ELSE NoneStr
             IN  /\ call' = [op |-> "check_access", user_id |-> user_id]
                 /\ result' = access
                 /\ response' =
                        [endpoint |-> endpoint, request |-> request,
                         status_code |-> 200,
                         body |-> WithUpgradeHint(
                                      StatusResponse(access, expires_at), access)]
                 /\ UNCHANGED <<users, subscriptions, token_ledger,
                                initial_balance, spent, credited, sessions,
                                client>>

\* POST /api/check_status
check_status_and_spend(x_api_key, action) ==
    LET endpoint == "POST /api/check_status"
        request == [x_api_key |-> x_api_key, action |-> action]
        user_id == get_user_from_api_key(x_api_key)
    IN  IF x_api_key = NoneStr \/ x_api_key = ""
        THEN StatusHTTPException(endpoint, request, 401, "API key required")
        ELSE IF user_id = 0
        THEN StatusHTTPException(endpoint, request, 401, "Invalid API key")
        ELSE IF action = NoneStr \/ action = ""
        THEN /\ call' = [op |-> "check_access", user_id |-> user_id]
             /\ result' = check_access(UserObject(user_id))
             /\ response' =
                    [endpoint |-> endpoint, request |-> request,
                     status_code |-> 200,
                     body |-> StatusResponse(check_access(UserObject(user_id)),
                                             NoneStr)]
             /\ UNCHANGED <<users, subscriptions, token_ledger,
                            initial_balance, spent, credited, sessions, client>>
        ELSE IF action \notin TokenAction
        THEN StatusHTTPException(endpoint, request, 400, "Invalid action")
        ELSE /\ Len(token_ledger) < MaxLedger
             /\ spend_tokens(user_id, action)
             /\ UNCHANGED client
             /\ IF ~result'.success
                THEN response' =
                         [endpoint |-> endpoint, request |-> request,
                          status_code |-> 402,
                          detail |->
                              [allowed |-> FALSE,
                               message |-> Get(result', "message",
                                               "Insufficient tokens"),
                               balance |-> Get(result', "balance", 0),
                               upgradeUrl |-> billing_url]]
                ELSE response' =
                         [endpoint |-> endpoint, request |-> request,
                          status_code |-> 200,
                          body |-> StatusResponse(
                                       check_access(UserObject(user_id))',
                                       NoneStr)]

CheckStatus ==
    \E x_api_key \in ApiKeys : check_status(x_api_key)

CheckStatusAndSpend ==
    \E x_api_key \in ApiKeys, action \in StatusActions :
        check_status_and_spend(x_api_key, action)

InitStatus ==
    /\ \E b \in StatusBalances :
          /\ users = [u \in Users |-> [token_balance |-> b,
                                        lifetime_license |-> FALSE,
                                        email |-> FirstEmail,
                                        stripe_customer_id |-> NoneStr]]
          /\ initial_balance = b
    /\ subscriptions = <<>>
    /\ token_ledger = <<>>
    /\ call = [op |-> "none"]
    /\ result = [success |-> TRUE]
    /\ spent = 0
    /\ credited = 0
    /\ sessions = <<>>
    /\ response = NoResponse
    /\ client = NoClient

NextStatus ==
    \/ CheckStatus
    \/ CheckStatusAndSpend
    \/ CheckoutCompleted
    \/ SubscriptionDeleted

SpecStatus == InitStatus /\ [][NextStatus]_vars

----------------------------------------------------------------------------
(* The other request endpoints of the portal: GET /api/tokens,             *)
(* POST /api/tokens/spend and POST /api/checkout.  api/tokens.py has its   *)
(* own copy of get_user_from_api_key, the same but for last_used_at.       *)

\* the action of a spend request body: not a TokenAction, two metered actions,
\* one action of the enum that COSTS does not list
SpendRequestActions == {"bogus", "agent_relay", "vibe_check", "purchase"}

\* the plan of a checkout request body
CheckoutPlans == {"pro", "lifetime", "enterprise"}

\* raise HTTPException(status_code, detail) before any service is used
EndpointHTTPException(endpoint, request, status_code, detail) ==
    /\ response' = [endpoint |-> endpoint, request |-> request,
                    status_code |-> status_code, detail |-> detail]
    /\ call' = [op |-> "http_exception"]
    /\ result' = [raised |-> "HTTPException"]
    /\ UNCHANGED <<users, subscriptions, token_ledger, initial_balance, spent,
                   credited, sessions, client>>

\* the newest entries of the user first, at most 20 (the ledger of the model
\* never holds that many)
RECURSIVE Reverse(_)
Reverse(seq) ==
    IF seq = <<>> THEN <<>> ELSE Append(Reverse(Tail(seq)), Head(seq))

\* TokenService.get_balance(user)
get_balance(user) ==
    LET access == check_access(user)
        entries == Reverse(LedgerOf(token_ledger, user.id))
    IN  [balance |-> access.balance,
         plan |-> access.plan,
         status |-> Get(access, "status", "unknown"),
         lifetimeLicense |-> Get(access, "lifetimeLicense", FALSE),
         history |-> [i \in 1..Len(entries) |->
                         [action |-> entries[i].action,
                          amount |-> entries[i].amount,
                          balanceAfter |-> entries[i].balance_after]]]

\* GET /api/tokens
get_token_balance(x_api_key) ==
    LET endpoint == "GET /api/tokens"
        request == [x_api_key |-> x_api_key]
        user_id == get_user_from_api_key(x_api_key)
    IN  IF x_api_key = NoneStr \/ x_api_key = ""
        THEN EndpointHTTPException(endpoint, request, 401, "API key required")
        ELSE IF user_id = 0
        THEN EndpointHTTPException(endpoint, request, 401, "Invalid API key")
        ELSE /\ call' = [op |-> "get_balance", user_id |-> user_id]
             /\ result' = get_balance(UserObject(user_id))
             /\ response' = [endpoint |-> endpoint, request |-> request,
                             status_code |-> 200,
                             body |-> get_balance(UserObject(user_id))]
             /\ UNCHANGED <<users, subscriptions, token_ledger,
                            initial_balance, spent, credited, sessions, client>>

\* POST /api/tokens/spend
tokens_spend(x_api_key, action) ==
    LET endpoint == "POST /api/tokens/spend"
        request == [x_api_key |-> x_api_key, action |-> action]
        user_id == get_user_from_api_key(x_api_key)
    IN  IF x_api_key = NoneStr \/ x_api_key = ""
        THEN EndpointHTTPException(endpoint, request, 401, "API key required")
        ELSE IF user_id = 0
        THEN EndpointHTTPException(endpoint, request, 401, "Invalid API key")
        ELSE IF action \notin TokenAction
        THEN EndpointHTTPException(endpoint, request, 400, "Invalid action")
        ELSE /\ Len(token_ledger) < MaxLedger
             /\ spend_tokens(user_id, action)
             /\ UNCHANGED client
             /\ IF ~result'.success
                THEN response' =
                         [endpoint |-> endpoint, request |-> request,
                          status_code |-> 402,
                          detail |->
                              [success |-> FALSE, tokensUsed |-> 0,
                               balance |-> Get(result', "balance", 0),
                               plan |-> "free",
                               error |-> Get(result', "error", NoneStr),
                               message |-> Get(result', "message", NoneStr),
                               upgradeUrl |-> Get(result', "upgradeUrl",
                                                  NoneStr)]]
                ELSE response' =
                         [endpoint |-> endpoint, request |-> request,
                          status_code |-> 200,
                          body |-> [success |-> TRUE,
                                    tokensUsed |-> result'.tokensUsed,
                                    balance |-> result'.balance,
                                    plan |-> result'.plan]]

\* select(User).where(User.email == email)
UsersByEmail(email) ==
    {i \in DOMAIN users : users[i].email = email}

\* User(email=email), with the column defaults
NewUser(email) ==
    [token_balance |-> default_token_balance, lifetime_license |-> FALSE,
     email |-> email, stripe_customer_id |-> NoneStr]

\* what the billing provider does with the calls of create_checkout_session
StripeOutcomes == {"ok", "customer_error", "session_error"}

\* POST /api/checkout.  A user row created for an unknown email is committed
\* before the billing provider is called; create_checkout_session creates
\* and commits a customer id when the user has none, then requests the
\* checkout session.  stripe tells which of the two calls raises, if any.
create_checkout(user_email, plan, stripe) ==
    LET endpoint == "POST /api/checkout"
        request == [user_email |-> user_email, plan |-> plan]
        found == scalar_one_or_none(UsersByEmail(user_email))
        table == IF found = 0 THEN Append(users, NewUser(user_email))
                 ELSE users
        user == IF found = 0 THEN Len(table) ELSE found
        needs_customer == table[user].stripe_customer_id = NoneStr
        with_customer ==
            IF needs_customer
            THEN [table EXCEPT ![user].stripe_customer_id = <<"cus", user>>]
            ELSE table
    IN  IF plan \notin {"pro", "lifetime"}
        THEN EndpointHTTPException(endpoint, request, 400,
                                   "Plan must be 'pro' or 'lifetime'")
        ELSE /\ call' = [op |-> "create_checkout_session", user_id |-> user,
                         plan |-> plan]
             /\ UNCHANGED <<subscriptions, token_ledger, initial_balance,
                            spent, credited, sessions, client>>
             /\ IF stripe = "customer_error" /\ needs_customer
                THEN /\ users' = table
                     /\ result' = [raised |-> "StripeError"]
                     /\ response' =
                            [endpoint |-> endpoint, request |-> request,
                             status_code |-> 500,
                             detail |-> "Internal Server Error"]
                ELSE IF stripe # "session_error"
                THEN /\ users' = with_customer
                     /\ result' = [returned |-> "https://checkout.stripe.com/session"]
                     /\ response' =
                            [endpoint |-> endpoint, request |-> request,
                             status_code |-> 200,
                             body |-> [url |-> "https://checkout.stripe.com/session"]]
                ELSE /\ users' = with_customer
                     /\ result' = [raised |-> "StripeError"]
                     /\ response' =
                            [endpoint |-> endpoint, request |-> request,
                             status_code |-> 500,
                             detail |-> "Internal Server Error"]

TokensBalance ==
    \E x_api_key \in ApiKeys : get_token_balance(x_api_key)

TokensSpend ==
    \E x_api_key \in ApiKeys, action \in SpendRequestActions :
        tokens_spend(x_api_key, action)

CreateCheckout ==
    \E user_email \in CheckoutEmails, plan \in CheckoutPlans,
       stripe \in StripeOutcomes :
        create_checkout(user_email, plan, stripe)

\* stores the billing events leave for user 1: no subscription, an active pro
\* subscription, a lifetime purchase
ApiStores ==
    {[subscriptions |-> <<>>, lifetime_license |-> FALSE],
     [subscriptions |->
          <<[NewSubscription(1) EXCEPT !.plan = "pro", !.status = "active",
                                       !.stripe_subscription_id = "sub_A",
                                       !.current_period_end = FirstPeriodEnd]>>,
      lifetime_license |-> FALSE],
     [subscriptions |->
          <<[NewSubscription(1) EXCEPT !.plan = "lifetime",
                                       !.status = "lifetime"]>>,
      lifetime_license |-> TRUE]}

InitApi ==
    /\ \E b \in StatusBalances, store \in ApiStores :
          /\ users = [u \in Users |->
                         [NewUser(FirstEmail) EXCEPT
                             !.token_balance = b,
                             !.lifetime_license = store.lifetime_license]]
          /\ initial_balance = b
          /\ subscriptions = store.subscriptions
    /\ token_ledger = <<>>
    /\ call = [op |-> "none"]
    /\ result = [success |-> TRUE]
    /\ spent = 0
    /\ credited = 0
    /\ sessions = <<>>
    /\ response = NoResponse
    /\ client = NoClient

NextApi ==
    \/ CheckStatus
    \/ CheckStatusAndSpend
    \/ TokensBalance
    \/ TokensSpend
    \/ CreateCheckout

SpecApi == InitApi /\ [][NextApi]_vars

----------------------------------------------------------------------------
(* The token service and the billing handlers side by side: the four       *)
(* operations of TokenService and the three handlers of StripeService on   *)
(* one store.                                                              *)

GetBalance ==
    \E user_id \in Users :
        /\ call' = [op |-> "get_balance", user_id |-> user_id]
        /\ result' = get_balance(UserObject(user_id))
        /\ UNCHANGED <<users, subscriptions, token_ledger, initial_balance,
                       spent, credited, sessions, response, client>>

NextServices ==
    \/ Spend
    \/ Credit
    \/ CheckAccess
    \/ GetBalance
    \/ CheckoutCompleted
    \/ SubscriptionUpdated
    \/ SubscriptionDeleted

SpecServices == Init /\ [][NextServices]_vars

----------------------------------------------------------------------------
(* The desktop client: a StatusChecker object and the MainWindow that owns *)
(* it.  MainWindow starts one check from _perform_startup_check; the       *)
(* StatusChecker accepts any number of check_status_async calls, and each  *)
(* runs check_status_sync in a thread of its own.  The portal is seen      *)
(* through what requests.get can give: an exception or a response.         *)

\* most status-check threads alive at once
MaxInFlight == 2

\* values of the client's PlanType and SubscriptionState enums
ClientPlanType == {"free", "pro", "lifetime", "unknown"}
SubscriptionState == {"active", "trialing", "expired", "cancelled", "lifetime",
                      "unknown"}

\* str.lower() on the strings the responses carry
Lower(str) ==
    CASE str = "Pro" -> "pro"
      [] str = "Active" -> "active"
      [] OTHER -> str

\* SubscriptionStatus(...): the client's status object; user_email is left
\* out as the responses of the model carry no email
ClientStatus(is_valid, plan, state, token_balance, is_lifetime, expires_at, error_message) ==
    [is_valid |-> is_valid, plan |-> plan, state |-> state,
     token_balance |-> token_balance, is_lifetime |-> is_lifetime,
     expires_at |-> expires_at, error_message |-> error_message]

\* Optional[SubscriptionStatus] = None
NoStatus == [none |-> TRUE]

\* mutant: a free plan may use the app whatever its balance
can_use_app_any_free(status) ==
    IF status.is_lifetime THEN TRUE
    ELSE IF status.state \in {"active", "trialing"} THEN TRUE
    ELSE IF status.plan = "free" THEN TRUE
    ELSE FALSE

\* SubscriptionStatus.can_use_app
can_use_app(status) ==
    IF status.is_lifetime THEN TRUE
    ELSE IF status.state \in {"active", "trialing"} THEN TRUE
    ELSE IF status.plan = "free" /\ status.token_balance > 0 THEN TRUE
    ELSE FALSE

\* SubscriptionStatus.expired(message)
expired(message) ==
    ClientStatus(FALSE, "free", "expired", 0, FALSE, NoneStr, message)

\* SubscriptionStatus.offline()
offline ==
    ClientStatus(TRUE, "free", "unknown", 0, FALSE, NoneStr,
                 "Offline mode - limited functionality")

\* StatusChecker._parse_status_response(data), for data a JSON object
parse_status_response(data) ==
    LET plan_str == Lower(Get(data, "plan", "free"))
        plan == IF plan_str \in ClientPlanType THEN plan_str ELSE "free"
        state_str == Lower(Get(data, "status", "unknown"))
        state == IF state_str \in SubscriptionState THEN state_str
                 ELSE "unknown"
        is_lifetime == Get(data, "lifetimeLicense", FALSE) \/ plan = "lifetime"
    IN  ClientStatus(Get(data, "allowed", TRUE), plan,
                     IF is_lifetime THEN "lifetime" ELSE state,
                     Get(data, "balance", Get(data, "tokenBalance", 0)),
                     is_lifetime, Get(data, "expiresAt", NoneStr), NoneStr)

\* JSON objects of 200 responses: what the GET endpoint sends for a free user
\* with tokens, a free user without, an active pro user and a lifetime user,
\* and an object with other letter case and no balance
StatusBodies ==
    {[allowed |-> TRUE, plan |-> "free", status |-> "trialing",
      balance |-> default_token_balance, lifetimeLicense |-> FALSE,
      expiresAt |-> NoneStr, message |-> NoneStr, upgradeUrl |-> NoneStr],
     [allowed |-> FALSE, plan |-> "free", status |-> "expired",
      balance |-> 0, lifetimeLicense |-> FALSE,
      expiresAt |-> NoneStr,
      message |-> "Free trial expired. Upgrade to continue.",
      upgradeUrl |-> billing_url],
     [allowed |-> TRUE, plan |-> "pro", status |-> "active",
      balance |-> -1, lifetimeLicense |-> FALSE,
      expiresAt |-> FirstPeriodEnd, message |-> NoneStr,
      upgradeUrl |-> NoneStr],
     [allowed |-> TRUE, plan |-> "lifetime", status |-> "lifetime",
      balance |-> -1, lifetimeLicense |-> TRUE,
      expiresAt |-> NoneStr, message |-> NoneStr, upgradeUrl |-> NoneStr],
     [plan |-> "Pro", status |-> "Active", tokenBalance |-> 7]}

\* what requests.get gives: one of three exceptions, or a response with a
\* status code and a body that is a JSON object (json TRUE) or is not
HttpOutcomes ==
    {[kind |-> k] : k \in {"Timeout", "ConnectionError", "RequestException"}}
    \cup {[kind |-> "Response", status_code |-> 200, json |-> TRUE,
           data |-> data] : data \in StatusBodies}
    \cup {[kind |-> "Response", status_code |-> 200, json |-> FALSE]}
    \cup {[kind |-> "Response", status_code |-> 402, json |-> TRUE,
           data |-> data] :
               data \in {[message |-> "Payment required"],
                         [detail |-> "Payment required"]}}
    \cup {[kind |-> "Response", status_code |-> code, json |-> TRUE,
           data |-> [detail |-> "error"]] : code \in {401, 403, 500}}

\* StatusChecker.check_status_sync with the given outcome of requests.get:
\* the set of results, a returned status or an exception that leaves the
\* method.  response.json() on a body that is not JSON raises
\* requests.exceptions.JSONDecodeError (a RequestException, caught) or
\* json.JSONDecodeError (a ValueError, not caught), by the version of requests.
check_status_sync(user_key, outcome) ==
    IF user_key = NoneStr \/ user_key = ""
    THEN {[returned |-> expired("No user key configured")]}
    ELSE IF outcome.kind # "Response"
    THEN {[returned |-> offline]}
    ELSE IF outcome.status_code = 200
    THEN IF outcome.json
         THEN {[returned |-> parse_status_response(outcome.data)]}
         ELSE {[returned |-> offline], [raised |-> "ValueError"]}
    ELSE IF outcome.status_code = 401
    THEN {[returned |-> expired("Invalid API key")]}
    ELSE IF outcome.status_code = 402
    THEN {[returned |->
              ClientStatus(FALSE, "free", "expired", 0, FALSE, NoneStr,
                           Get(outcome.data, "message", "Free trial expired"))]}
    ELSE IF outcome.status_code = 403
    THEN {[returned |-> expired("Access denied")]}
    ELSE {[returned |-> offline]}

\* MainWindow._handle_status_result(status), as the new client fields
handle_status_result(status) ==
    [client EXCEPT
        !.current_status = status,
        !.popup = IF ~can_use_app(status) THEN "subscription" ELSE @]

\* MainWindow._perform_startup_check, once after the window is built
PerformStartupCheck ==
    /\ client.pc = "created"
    /\ client' = IF client.user_key = NoneStr \/ client.user_key = ""
                 THEN [client EXCEPT !.pc = "running", !.popup = "login"]
                 ELSE [client EXCEPT !.pc = "running",
                                     !.in_flight = @ + 1]
    /\ call' = [op |-> "perform_startup_check"]
    /\ UNCHANGED <<users, subscriptions, token_ledger, result,
                   initial_balance, spent, credited, sessions, response>>

\* LoginPopup submit: MainWindow._on_api_key_submit(key) stores the key and
\* performs the startup check again
OnApiKeySubmit ==
    /\ client.pc = "running"
    /\ client.popup = "login"
    /\ client.in_flight < MaxInFlight
    /\ \E key \in {"aegis_live"} :
          /\ client' = [client EXCEPT !.user_key = key, !.popup = "none",
                                      !.in_flight = @ + 1]
          /\ call' = [op |-> "on_api_key_submit", key |-> key]
    /\ UNCHANGED <<users, subscriptions, token_ledger, result,
                   initial_balance, spent, credited, sessions, response>>

\* LoginPopup cancel and SubscriptionPopup dismiss: the popup is destroyed
PopupClosed ==
    /\ client.pc = "running"
    /\ client.popup # "none"
    /\ client' = [client EXCEPT !.popup = "none"]
    /\ call' = [op |-> "popup_closed"]
    /\ UNCHANGED <<users, subscriptions, token_ledger, result,
                   initial_balance, spent, credited, sessions, response>>

\* a further StatusChecker.check_status_async call with the window's
\* callbacks: the thread is started
CheckStatusAsync ==
    /\ client.pc = "running"
    /\ client.in_flight < MaxInFlight
    /\ client' = [client EXCEPT !.in_flight = @ + 1]
    /\ call' = [op |-> "check_status_async"]
    /\ UNCHANGED <<users, subscriptions, token_ledger, result,
                   initial_balance, spent, credited, sessions, response>>

\* the thread body _check of check_status_async: the status is cached and
\* passed to on_complete; an exception goes to on_error, which passes the
\* offline status to _handle_status_result
CheckThread ==
    /\ client.pc = "running"
    /\ client.in_flight > 0
    /\ \E outcome \in HttpOutcomes :
        \E sync \in check_status_sync(client.user_key, outcome) :
          /\ call' = [op |-> "check_status", outcome |-> outcome]
          /\ result' = sync
          /\ client' =
                 IF "returned" \in DOMAIN sync
                 THEN [handle_status_result(sync.returned) EXCEPT
                          !.cached_status = sync.returned,
                          !.in_flight = @ - 1]
                 ELSE [handle_status_result(offline) EXCEPT
                          !.in_flight = @ - 1]
    /\ UNCHANGED <<users, subscriptions, token_ledger, initial_balance,
                   spent, credited, sessions, response>>

\* StatusChecker.clear_cache
ClearCache ==
    /\ client.pc = "running"
    /\ client.cached_status # NoStatus
    /\ client' = [client EXCEPT !.cached_status = NoStatus]
    /\ call' = [op |-> "clear_cache"]
    /\ UNCHANGED <<users, subscriptions, token_ledger, result,
                   initial_balance, spent, credited, sessions, response>>

\* the window and its StatusChecker as constructed: the key is the one the
\* config file holds, if any
InitClient ==
    /\ \E b \in InitBalances :
          /\ users = [u \in Users |-> [token_balance |-> b,
                                        lifetime_license |-> FALSE,
                                        email |-> FirstEmail,
                                        stripe_customer_id |-> NoneStr]]
          /\ initial_balance = b
    /\ subscriptions = <<>>
    /\ token_ledger = <<>>
    /\ call = [op |-> "none"]
    /\ result = [success |-> TRUE]
    /\ spent = 0
    /\ credited = 0
    /\ sessions = <<>>
    /\ response = NoResponse
    /\ \E key \in {NoneStr, "aegis_live"} :
          client = [pc |-> "created", user_key |-> key,
                    cached_status |-> NoStatus, current_status |-> NoStatus,
                    popup |-> "none", in_flight |-> 0]

NextClient ==
    \/ PerformStartupCheck
    \/ OnApiKeySubmit
    \/ PopupClosed
    \/ CheckStatusAsync
    \/ CheckThread
    \/ ClearCache

SpecClient == InitClient /\ [][NextClient]_vars

----------------------------------------------------------------------------
(* The access policy on its own: check_access applied to any content of    *)
(* the user row and the subscription row                                   *)

\* token_balance values of the user row (the column is a signed integer)
PolicyBalances == {-5, 0, 1, default_token_balance}

\* the subscriptions table: empty, or the user's one row with any plan and
\* status of the two enums, any period end and cancellation flag
PolicySubscriptions ==
    {<<>>} \cup
    {<<[user_id |-> 1, plan |-> row[1], status |-> row[2],
        stripe_subscription_id |-> NoneStr,
        current_period_end |-> row[3], cancel_at_period_end |-> row[4]]>> :
        row \in PlanType \X SubscriptionStatus \X
                ({NoneStr} \cup PeriodEnds) \X BOOLEAN}

InitPolicy ==
    /\ \E b \in PolicyBalances, lifetime \in BOOLEAN :
          /\ users = [u \in Users |-> [token_balance |-> b,
                                        lifetime_license |-> lifetime,
                                        email |-> FirstEmail,
                                        stripe_customer_id |-> NoneStr]]
          /\ initial_balance = b
    /\ subscriptions \in PolicySubscriptions
    /\ token_ledger = <<>>
    /\ call = [op |-> "none"]
    /\ result = [success |-> TRUE]
    /\ spent = 0
    /\ credited = 0
    /\ sessions = <<>>
    /\ response = NoResponse
    /\ client = NoClient

NextPolicy == CheckAccess

SpecPolicy == InitPolicy /\ [][NextPolicy]_vars

----------------------------------------------------------------------------
(* Concurrent spend requests on one user.  Each request of the spend       *)
(* endpoint runs in its own session: it loads the user row into a session  *)
(* object (get_user_from_api_key), runs spend_tokens on that object, and   *)
(* commits.  The code takes no row lock (no SELECT ... FOR UPDATE) and     *)
(* compares no version at write time, so the commit writes the balance     *)
(* computed from the row as it was loaded.  Other requests may run at each *)
(* await: after the user is loaded, and before the commit is applied.      *)

\* concurrent requests of the spend endpoint
NumRequests == 2

Requests == 1..NumRequests

\* user = await get_user_from_api_key(x_api_key, db); the action is taken
\* from the request body
LoadUser(r) ==
    /\ sessions[r].pc = "start"
    /\ \E user_id \in Users, action \in TokenAction :
          sessions' = [sessions EXCEPT ![r] =
              [pc |-> "loaded", action |-> action, user |-> UserObject(user_id)]]
    /\ UNCHANGED <<users, subscriptions, token_ledger, call, result,
                   initial_balance, spent, credited, response, client>>

\* spend_tokens on the session's user object, up to the commit: the three
\* paths that return at once answer the request; the deducting path sets the
\* new balance on the object and adds the entry to the session
SpendInSession(r) ==
    /\ sessions[r].pc = "loaded"
    /\ LET outcome == SpendOutcome(sessions[r].user, sessions[r].action)
       IN  IF outcome.path = "deduct"
           THEN /\ sessions' = [sessions EXCEPT ![r] =
                       [pc |-> "pending", action |-> sessions[r].action,
                        loaded_balance |-> sessions[r].user.token_balance,
                        user |-> [sessions[r].user EXCEPT
                                     !.token_balance = outcome.token_balance],
                        ledger_entry |-> outcome.ledger_entry,
                        result |-> outcome.result]]
                /\ UNCHANGED <<call, result>>
           ELSE /\ sessions' = [sessions EXCEPT ![r] =
                       [pc |-> "done", action |-> sessions[r].action,
                        result |-> outcome.result]]
                /\ call' = [op |-> "spend", user_id |-> sessions[r].user.id,
                            action |-> sessions[r].action]
                /\ result' = outcome.result
    /\ UNCHANGED <<users, subscriptions, token_ledger, initial_balance,
                   spent, credited, response, client>>

\* await self.db.commit(): the flush writes the object's token_balance to the
\* user row (an attribute set to the value it was loaded with is not written)
\* and inserts the entry; then the success result is returned
Commit(r) ==
    /\ sessions[r].pc = "pending"
    /\ users' = IF sessions[r].user.token_balance = sessions[r].loaded_balance
                THEN users
                ELSE [users EXCEPT ![sessions[r].user.id].token_balance =
                                       sessions[r].user.token_balance]
    /\ token_ledger' = Append(token_ledger, sessions[r].ledger_entry)
    /\ spent' = spent + sessions[r].result.tokensUsed
    /\ sessions' = [sessions EXCEPT ![r] =
           [pc |-> "done", action |-> sessions[r].action,
            result |-> sessions[r].result]]
    /\ call' = [op |-> "spend", user_id |-> sessions[r].user.id,
                action |-> sessions[r].action]
    /\ result' = sessions[r].result
    /\ UNCHANGED <<subscriptions, initial_balance, credited, response, client>>

InitConcurrent ==
    /\ \E b \in InitBalances :
          /\ users = [u \in Users |-> [token_balance |-> b,
                                        lifetime_license |-> FALSE,
                                        email |-> FirstEmail,
                                        stripe_customer_id |-> NoneStr]]
          /\ initial_balance = b
    /\ subscriptions = <<>>
    /\ token_ledger = <<>>
    /\ call = [op |-> "none"]
    /\ result = [success |-> TRUE]
    /\ spent = 0
    /\ credited = 0
    /\ sessions = [r \in Requests |-> [pc |-> "start"]]
    /\ response = NoResponse
    /\ client = NoClient

NextConcurrent ==
    \E r \in Requests :
        \/ LoadUser(r)
        \/ SpendInSession(r)
        \/ Commit(r)

SpecConcurrent == InitConcurrent /\ [][NextConcurrent]_vars

----------------------------------------------------------------------------
(* A commit that fails.  spend_tokens sets the new balance on the session's *)
(* user object and adds the entry to the session before the one commit of  *)
(* the request; the flush sends the UPDATE and the INSERT in one database   *)
(* transaction.  When the commit raises, the transaction is rolled back,   *)
(* the exception leaves spend_tokens and the endpoint (neither catches it) *)
(* and the request ends; the user object of the session keeps no role.     *)
(* The next request gets a session of its own and loads the row again.     *)

\* mutant: the UPDATE of the balance is kept although the commit raised
CommitFails_partial(r) ==
    /\ sessions[r].pc = "pending"
    /\ users' = [users EXCEPT ![sessions[r].user.id].token_balance =
                                  sessions[r].user.token_balance]
    /\ sessions' = [sessions EXCEPT ![r] =
           [pc |-> "failed", action |-> sessions[r].action,
            user |-> sessions[r].user]]
    /\ call' = [op |-> "spend", user_id |-> sessions[r].user.id,
                action |-> sessions[r].action]
    /\ result' = [raised |-> "SQLAlchemyError"]
    /\ UNCHANGED <<subscriptions, token_ledger, initial_balance, spent,
                   credited, response, client>>

\* await self.db.commit() raises: neither the balance nor the entry reaches
\* the tables; the session's object still holds the lowered balance
CommitFails(r) ==
    /\ sessions[r].pc = "pending"
    /\ sessions' = [sessions EXCEPT ![r] =
           [pc |-> "failed", action |-> sessions[r].action,
            user |-> sessions[r].user]]
    /\ call' = [op |-> "spend", user_id |-> sessions[r].user.id,
                action |-> sessions[r].action]
    /\ result' = [raised |-> "SQLAlchemyError"]
    /\ UNCHANGED <<users, subscriptions, token_ledger, initial_balance, spent,
                   credited, response, client>>

\* the caller sends the request again after the server error: the endpoint
\* runs in a new session
Retry(r) ==
    /\ sessions[r].pc = "failed"
    /\ sessions' = [sessions EXCEPT ![r] = [pc |-> "start"]]
    /\ UNCHANGED <<users, subscriptions, token_ledger, call, result,
                   initial_balance, spent, credited, response, client>>

NextCommit ==
    \E r \in Requests :
        \/ LoadUser(r)
        \/ SpendInSession(r)
        \/ Commit(r)
        \/ CommitFails(r)
        \/ Retry(r)

SpecCommit == InitConcurrent /\ [][NextCommit]_vars

----------------------------------------------------------------------------
(* Properties of the ledger service, checked under Spec *)

\* the step is spend_tokens(user_id, action)
IsSpend(user_id, action) ==
    call' = [op |-> "spend", user_id |-> user_id, action |-> action]

\* the step is a credit_tokens call for user_id
IsCredit(user_id) ==
    /\ "op" \in DOMAIN call'
    /\ call'.op = "credit"
    /\ call'.user_id = user_id

\* the user is metered: no lifetime license and no active pro subscription
FreeTier(user_id) ==
    /\ ~users[user_id].lifetime_license
    /\ check_access(UserObject(user_id)).balance # -1

\* C1: after any sequence of spend calls the balance is the initial balance
\* minus the costs of the successful spends (credited is 0 when nothing was
\* credited), and the newest ledger entry of the user carries that balance
C1_SpendSumsToBalance ==
    \A u \in Users :
        LET ledger == LedgerOf(token_ledger, u)
        IN  /\ users[u].token_balance = initial_balance + credited - spent
            /\ ledger # <<>> =>
                   ledger[Len(ledger)].balance_after = users[u].token_balance

\* C1 witness: two metered spends (100 and 10 tokens) succeeded, no credit
C1_Witness ==
    /\ call.op = "spend"
    /\ result.success
    /\ spent = token_costs_vibe_check + token_costs_context_sync
    /\ credited = 0
    /\ Len(token_ledger) = 2
    /\ token_ledger[1].amount < 0
    /\ token_ledger[2].amount < 0

\* C2 as claimed: whenever a free-tier user's balance is below the cost, spend
\* fails with insufficient_tokens, reports balance = token_balance and
\* required = cost, and changes neither the balance nor the ledger
C2_ShortfallAlwaysReported ==
    [][\A u \in Users, a \in TokenAction :
         (IsSpend(u, a) /\ FreeTier(u) /\ CostOf(a) > users[u].token_balance) =>
             /\ result'.success = FALSE
             /\ result'.error = "insufficient_tokens"
             /\ result'.balance = users[u].token_balance
             /\ "required" \in DOMAIN result'
             /\ result'.required = CostOf(a)
             /\ users' = users
             /\ token_ledger' = token_ledger]_vars

\* C2 amended: spend never takes a balance from >= 0 to below 0; with a
\* balance below the cost it fails with insufficient_tokens and changes neither
\* balance nor ledger; it reports balance = token_balance and required = cost
\* when token_balance > 0, and balance 0 with no required field when
\* token_balance <= 0 (the access check rejects first)
C2_ShortfallRejected ==
    [][\A u \in Users, a \in TokenAction :
         /\ (IsSpend(u, a) /\ users[u].token_balance >= 0) =>
                users'[u].token_balance >= 0
         /\ (IsSpend(u, a) /\ FreeTier(u)
                /\ CostOf(a) > users[u].token_balance) =>
                /\ result'.success = FALSE
                /\ result'.error = "insufficient_tokens"
                /\ users' = users
                /\ token_ledger' = token_ledger
                /\ IF users[u].token_balance > 0
                   THEN /\ result'.balance = users[u].token_balance
                        /\ "required" \in DOMAIN result'
                        /\ result'.required = CostOf(a)
                   ELSE /\ result'.balance = 0
                        /\ "required" \notin DOMAIN result']_vars

\* C2 witness: balance 1, an action costing 5: the error reports balance 1 and
\* required 5, and the balance is still 1
C2_Witness ==
    /\ call = [op |-> "spend", user_id |-> 1, action |-> "agent_relay"]
    /\ result.success = FALSE
    /\ "required" \in DOMAIN result
    /\ result.required = 5
    /\ result.balance = 1
    /\ users[1].token_balance = 1

\* C4: the ledger entries of a user, in creation order, form a running sum
\* from the balance at construction, and the newest one carries the user's
\* current token_balance
C4_LedgerRunningSum ==
    \A u \in Users :
        LET ledger == LedgerOf(token_ledger, u)
        IN  ledger # <<>> =>
              /\ ledger[1].balance_after = initial_balance + ledger[1].amount
              /\ \A i \in 2..Len(ledger) :
                     ledger[i].balance_after =
                         ledger[i - 1].balance_after + ledger[i].amount
              /\ ledger[Len(ledger)].balance_after = users[u].token_balance

\* C4 witness: a credit followed by a metered spend, two entries
C4_Witness ==
    /\ Len(token_ledger) = 2
    /\ token_ledger[1].amount > 0
    /\ token_ledger[2].amount < 0
    /\ call.op = "spend"

\* C8: a spend that the access check does not allow fails with
\* insufficient_tokens, balance 0 and the upgrade hint; a spend on an unlimited
\* decision succeeds with tokensUsed 0 and balance -1; both leave the balance
\* and the ledger as they were
C8_NonMeteredSpendFrame ==
    [][\A u \in Users, a \in TokenAction :
         LET access == check_access(UserObject(u))
         IN  /\ (IsSpend(u, a) /\ ~access.allowed) =>
                    /\ result'.success = FALSE
                    /\ result'.error = "insufficient_tokens"
                    /\ result'.balance = 0
                    /\ result'.upgradeUrl = billing_url
                    /\ users' = users
                    /\ token_ledger' = token_ledger
             /\ (IsSpend(u, a) /\ access.allowed /\ access.balance = -1) =>
                    /\ result'.success = TRUE
                    /\ result'.tokensUsed = 0
                    /\ result'.balance = -1
                    /\ users' = users
                    /\ token_ledger' = token_ledger]_vars

\* C8 witness: a spend by a user with an active pro subscription and no
\* lifetime license returned the unlimited result
C8_Witness ==
    /\ call.op = "spend"
    /\ result.success
    /\ result.balance = -1
    /\ result.plan = "pro"
    /\ ~users[1].lifetime_license

\* C9 as claimed: every credit applies an amount > 0, raises token_balance by
\* exactly that amount and appends one entry with that positive amount and the
\* new balance; no credit lowers token_balance
C9_CreditOnlyPositive ==
    [][\A u \in Users :
         IsCredit(u) =>
             /\ call'.amount > 0
             /\ users'[u].token_balance = users[u].token_balance + call'.amount
             /\ users'[u].token_balance > users[u].token_balance
             /\ Len(token_ledger') = Len(token_ledger) + 1
             /\ token_ledger'[Len(token_ledger')].amount > 0
             /\ token_ledger'[Len(token_ledger')].balance_after =
                    users'[u].token_balance]_vars

\* C10: from balance 0, credit 100 then a spend costing 100 ends at balance 0
\* with exactly two entries, amounts +100 and -100, balance_after 100 then 0
C10_CreditSpendRoundTrip ==
    [][\A u \in Users, a \in TokenAction :
         (/\ initial_balance = 0
          /\ "amount" \in DOMAIN call
          /\ call.op = "credit"
          /\ call.user_id = u
          /\ call.amount = 100
          /\ Len(token_ledger) = 1
          /\ FreeTier(u)
          /\ CostOf(a) = 100
          /\ IsSpend(u, a)) =>
             /\ result'.success = TRUE
             /\ users'[u].token_balance = 0
             /\ Len(token_ledger') = 2
             /\ token_ledger'[1].amount = 100
             /\ token_ledger'[2].amount = -100
             /\ token_ledger'[1].amount + token_ledger'[2].amount = 0
             /\ token_ledger'[1].balance_after = 100
             /\ token_ledger'[2].balance_after = 0]_vars

\* C10 witness: the user started at 0, 100 was credited, a vibe_check was
\* spent, and two entries exist
C10_Witness ==
    /\ initial_balance = 0
    /\ credited = 100
    /\ spent = 100
    /\ call = [op |-> "spend", user_id |-> 1, action |-> "vibe_check"]
    /\ result.success
    /\ Len(token_ledger) = 2

----------------------------------------------------------------------------
(* Properties of concurrent spend requests, checked under SpecConcurrent *)

\* C3: under every interleaving of concurrent spend requests on one user the
\* committed token_balance is never below zero and equals the initial balance
\* minus the costs of all spends that reported success
C3_NoLostUpdate ==
    \A u \in Users :
        /\ users[u].token_balance >= 0
        /\ users[u].token_balance = initial_balance - spent

----------------------------------------------------------------------------
(* Properties of the access policy, checked under SpecPolicy *)

\* the subscription row check_access reads for the user, or 0
SubscriptionOf(user_id) == scalar_one_or_none(SubscriptionsOfUser(user_id))

\* the user has a subscription row with plan pro and status active
ActivePro(user_id) ==
    /\ SubscriptionOf(user_id) # 0
    /\ subscriptions[SubscriptionOf(user_id)].plan = "pro"
    /\ subscriptions[SubscriptionOf(user_id)].status = "active"

\* the last operation was check_access for user_id
Checked(user_id) == call = [op |-> "check_access", user_id |-> user_id]

\* C5: for a user with lifetime_license, check_access returns allowed,
\* plan lifetime, status lifetime, balance -1, whatever the subscription row
\* and the token_balance
C5_LifetimePrecedence ==
    \A u \in Users :
        (Checked(u) /\ users[u].lifetime_license) =>
            /\ result.allowed = TRUE
            /\ result.plan = "lifetime"
            /\ result.status = "lifetime"
            /\ result.balance = -1

\* C5 witness: a lifetime user with a cancelled free subscription row and
\* balance 0 was checked
C5_Witness ==
    /\ Checked(1)
    /\ users[1].lifetime_license
    /\ users[1].token_balance = 0
    /\ subscriptions # <<>>
    /\ subscriptions[1].plan = "free"
    /\ subscriptions[1].status = "cancelled"

\* C6: without lifetime_license, check_access is unlimited (allowed,
\* balance -1, plan pro) exactly when the subscription row has plan pro and
\* status active; any other row is decided by token_balance > 0 with plan free
C6_UnlimitedOnlyActivePro ==
    \A u \in Users :
        (Checked(u) /\ ~users[u].lifetime_license) =>
            /\ ActivePro(u) =>
                   /\ result.allowed = TRUE
                   /\ result.balance = -1
                   /\ result.plan = "pro"
            /\ ~ActivePro(u) =>
                   /\ result.balance # -1
                   /\ result.plan = "free"
                   /\ result.allowed = (users[u].token_balance > 0)

\* C6 witness: an active pro subscription with token_balance 0 was checked
C6_Witness ==
    /\ Checked(1)
    /\ ~users[1].lifetime_license
    /\ users[1].token_balance = 0
    /\ ActivePro(1)

\* C7: when neither the lifetime rule nor the active-pro rule matches,
\* check_access returns plan free, allowed = (token_balance > 0), status
\* trialing if allowed else expired, and the balance floored at 0; a user with
\* balance 5000 and no subscription row gets allowed, free, trialing, 5000
C7_FreeTierRule ==
    \A u \in Users :
        (Checked(u) /\ ~users[u].lifetime_license /\ ~ActivePro(u)) =>
            /\ result.plan = "free"
            /\ result.allowed = (users[u].token_balance > 0)
            /\ result.status = IF result.allowed THEN "trialing" ELSE "expired"
            /\ result.balance = IF users[u].token_balance > 0
                                THEN users[u].token_balance ELSE 0
            /\ (users[u].token_balance = default_token_balance /\ subscriptions = <<>>) =>
                   /\ result.allowed = TRUE
                   /\ result.status = "trialing"
                   /\ result.balance = default_token_balance

\* C7 witness: a user with the default balance and no subscription row was
\* checked
C7_Witness ==
    /\ Checked(1)
    /\ ~users[1].lifetime_license
    /\ users[1].token_balance = default_token_balance
    /\ subscriptions = <<>>

----------------------------------------------------------------------------
(* Properties of the subscription lifecycle handlers, checked under Spec *)

\* C11: handling a checkout-completed event that is identical to the event
\* handled last (plan pro or lifetime, any user id) changes no user row
\* (token_balance, lifetime_license), no subscription row (plan, status,
\* billing reference, number of rows) and no ledger entry, and credits nothing
C11_CheckoutIdempotent ==
    [][(/\ call.op = "checkout_completed"
        /\ call'.op = "checkout_completed"
        /\ call'.session = call.session) =>
           /\ users' = users
           /\ subscriptions' = subscriptions
           /\ token_ledger' = token_ledger
           /\ credited' = credited]_vars

\* C11 witness: a pro checkout of user 1 was handled twice in a row and the
\* user has the one subscription row, pro and active with the event's reference
C11_Witness ==
    /\ call.op = "checkout_completed"
    /\ call.replay
    /\ call.session.user_id = 1
    /\ call.session.plan = "pro"
    /\ Len(subscriptions) = 1
    /\ subscriptions[1].plan = "pro"
    /\ subscriptions[1].status = "active"
    /\ subscriptions[1].stripe_subscription_id = call.session.subscription

\* C12: in every state reached by checkout-completed, subscription-updated
\* and subscription-deleted events, a subscription row with plan lifetime has
\* status lifetime and its user has lifetime_license
C12_LifetimeRowConsistent ==
    \A i \in 1..Len(subscriptions) :
        subscriptions[i].plan = "lifetime" =>
            /\ subscriptions[i].status = "lifetime"
            /\ users[subscriptions[i].user_id].lifetime_license

----------------------------------------------------------------------------
(* Properties of the billing events with events of any billing period,     *)
(* checked under SpecLifecycle                                             *)

\* the step is handle_subscription_updated for a billing reference that a
\* subscription row carries
IsFoundUpdate(i) ==
    /\ call'.op = "subscription_updated"
    /\ i \in SubscriptionsByRef(call'.stripe_subscription.id)

\* C13: a subscription-updated event sets the status of the row found by the
\* billing reference to active for "active", trialing for "trialing",
\* cancelled for "canceled", and expired for "past_due", "unpaid" and every
\* other provider status; "past_due" never gives active or cancelled
C13_StatusMapping ==
    [][\A i \in 1..Len(subscriptions) :
         IsFoundUpdate(i) =>
             LET provider == call'.stripe_subscription.status
                 status == subscriptions'[i].status
             IN  /\ provider = "active" => status = "active"
                 /\ provider = "trialing" => status = "trialing"
                 /\ provider = "canceled" => status = "cancelled"
                 /\ provider \in {"past_due", "unpaid"} => status = "expired"
                 /\ provider \notin {"active", "trialing", "canceled"} =>
                        status = "expired"
                 /\ provider = "past_due" =>
                        status \notin {"active", "cancelled"}]_vars

\* C13 witness: an active pro row was updated with "past_due" and is expired
C13_Witness ==
    /\ call.op = "subscription_updated"
    /\ call.stripe_subscription.id = "sub_A"
    /\ call.stripe_subscription.status = "past_due"
    /\ Len(subscriptions) = 1
    /\ subscriptions[1].stripe_subscription_id = "sub_A"
    /\ subscriptions[1].plan = "pro"
    /\ subscriptions[1].status = "expired"

\* the step is handle_subscription_deleted for a billing reference that
\* subscription row i carries
IsFoundDelete(i) ==
    /\ call'.op = "subscription_deleted"
    /\ i \in SubscriptionsByRef(call'.stripe_subscription.id)

\* C14: a subscription-deleted event sets the row found by the billing
\* reference to status cancelled and plan free in that step, whatever its
\* cancel_at_period_end and current_period_end; for an owner without
\* lifetime_license the access check on the resulting store is the free-tier
\* rule on token_balance
C14_DeletedDowngradesAtOnce ==
    [][\A i \in 1..Len(subscriptions) :
         IsFoundDelete(i) =>
             LET u == subscriptions[i].user_id
                 access == check_access(UserObject(u))'
             IN  /\ subscriptions'[i].status = "cancelled"
                 /\ subscriptions'[i].plan = "free"
                 /\ users' = users
                 /\ ~users[u].lifetime_license =>
                        /\ access.plan = "free"
                        /\ access.allowed = (users[u].token_balance > 0)
                        /\ access.balance = IF users[u].token_balance > 0
                                            THEN users[u].token_balance ELSE 0
                        /\ access.status = IF users[u].token_balance > 0
                                           THEN "trialing" ELSE "expired"]_vars

\* C14 witness: the row of a user with balance 0 and no lifetime license was
\* deleted while set to cancel at the end of a later period: it is free and
\* cancelled
C14_Witness ==
    /\ call.op = "subscription_deleted"
    /\ call.stripe_subscription.id = "sub_A"
    /\ ~users[1].lifetime_license
    /\ users[1].token_balance = 0
    /\ Len(subscriptions) = 1
    /\ subscriptions[1].stripe_subscription_id = "sub_A"
    /\ subscriptions[1].cancel_at_period_end
    /\ subscriptions[1].current_period_end = "period_2"
    /\ subscriptions[1].plan = "free"
    /\ subscriptions[1].status = "cancelled"

----------------------------------------------------------------------------
(* Properties of the webhook endpoint, checked under SpecWebhook *)

\* the step serves a webhook request
IsWebhookRequest ==
    /\ "endpoint" \in DOMAIN response'
    /\ response'.endpoint = "POST /api/webhook"

\* the request passes the boundary: the header verifies and the body is JSON
PassesBoundary(request) ==
    /\ request.stripe_signature = ValidSignature
    /\ request.payload.json

\* the event names a user or a billing subscription the store does not hold
IsDangling(event) ==
    \/ /\ event.type = "checkout.session.completed"
       /\ event.object.user_id = 0 \/ event.object.user_id \notin Users
    \/ /\ event.type \in {"customer.subscription.updated",
                          "customer.subscription.deleted"}
       /\ \A i \in 1..Len(subscriptions) :
              subscriptions[i].stripe_subscription_id # event.object.id

\* the tables are as they were before the step
StoreUnchanged ==
    /\ users' = users
    /\ subscriptions' = subscriptions
    /\ token_ledger' = token_ledger

\* C15: a verified checkout-completed event with a missing or unknown user
\* id, and a verified subscription-updated or subscription-deleted event whose
\* billing reference no row carries, change no user, subscription or ledger row
\* (no subscription row is created) and are answered 200 {"received": true}
C15_DanglingEventDropped ==
    [][(/\ IsWebhookRequest
        /\ PassesBoundary(response'.request)
        /\ IsDangling(response'.request.payload)) =>
           /\ StoreUnchanged
           /\ Len(subscriptions') = Len(subscriptions)
           /\ response'.status_code = 200
           /\ response'.body = [received |-> TRUE]]_vars

\* C15 witness: with one subscription row in the store, an updated event for
\* a reference no row carries was answered 200
C15_Witness ==
    /\ "endpoint" \in DOMAIN response
    /\ PassesBoundary(response.request)
    /\ response.request.payload.type = "customer.subscription.updated"
    /\ response.request.payload.object.id = "sub_X"
    /\ call.op = "subscription_updated"
    /\ Len(subscriptions) = 1
    /\ subscriptions[1].stripe_subscription_id = "sub_A"
    /\ subscriptions[1].status = "active"
    /\ response.status_code = 200

\* C16: a request with a missing or empty signature, a signature that does
\* not verify, or a body that is not JSON is answered 400, runs no handler and
\* changes no row; a handler runs only for a request whose signature verified;
\* a verified event of a type the endpoint does not know is answered 200 and
\* changes no row
C16_WebhookBoundary ==
    [][IsWebhookRequest =>
         LET request == response'.request
         IN  /\ ~PassesBoundary(request) =>
                    /\ response'.status_code = 400
                    /\ call'.op = "stripe_webhook"
                    /\ StoreUnchanged
             /\ call'.op # "stripe_webhook" => PassesBoundary(request)
             /\ (/\ PassesBoundary(request)
                 /\ request.payload.type \in UnhandledEventTypes) =>
                    /\ response'.status_code = 200
                    /\ call'.op = "stripe_webhook"
                    /\ StoreUnchanged]_vars

\* C16 witness: a pro checkout event of user 1 with a signature that does not
\* verify was answered 400 and the user has no subscription row
C16_Witness ==
    /\ "endpoint" \in DOMAIN response
    /\ response.request.stripe_signature = "t=1,v1=bad"
    /\ response.request.payload.json
    /\ response.request.payload.type = "checkout.session.completed"
    /\ response.request.payload.object.user_id = 1
    /\ response.status_code = 400
    /\ response.detail = "Invalid signature"
    /\ subscriptions = <<>>

----------------------------------------------------------------------------
(* Properties of the status endpoints, checked under SpecStatus *)

\* the step serves a request of the status endpoints for an authenticated
\* user
IsStatusRequest(user_id) ==
    /\ "endpoint" \in DOMAIN response'
    /\ response'.endpoint \in {"GET /api/check_status", "POST /api/check_status"}
    /\ get_user_from_api_key(response'.request.x_api_key) = user_id

\* C17: every status response (GET and POST) carries in allowed the decision
\* of the access policy for the user on the store the request leaves, and
\* carries an upgradeUrl whenever allowed is false
C17_DeniedStatusHasHint ==
    [][\A u \in Users :
         (IsStatusRequest(u) /\ response'.status_code = 200) =>
             /\ response'.body.allowed = check_access(UserObject(u))'.allowed
             /\ ~response'.body.allowed =>
                    response'.body.upgradeUrl # NoneStr]_vars

\* C18: a status request of an authenticated user whom the access policy
\* denies (balance exhausted, trial expired) is answered 402 with message,
\* balance and upgradeUrl in the body; 200 is answered only with allowed true
C18_DeniedStatusIs402 ==
    [][\A u \in Users :
         (IsStatusRequest(u) /\ response'.status_code # 400) =>
             /\ ~check_access(UserObject(u)).allowed =>
                    /\ response'.status_code = 402
                    /\ {"message", "balance", "upgradeUrl"} \subseteq
                           DOMAIN response'.detail
             /\ response'.status_code = 200 => response'.body.allowed]_vars

----------------------------------------------------------------------------
(* Properties of the desktop client, checked under SpecClient *)

\* the step is a status check that got the given outcome from requests.get
IsCheckWith(outcome) ==
    call' = [op |-> "check_status", outcome |-> outcome]

\* the outcomes of a request that did not reach an answer of the portal's
\* status endpoint: timeout, connection failure, unexpected status code
OfflineOutcomes ==
    {outcome \in HttpOutcomes :
        \/ outcome.kind \in {"Timeout", "ConnectionError"}
        \/ outcome.kind = "Response" /\
              outcome.status_code \notin {200, 401, 402, 403}}

\* C19: a status check of a client with a key that times out, cannot connect
\* or gets an unexpected status code yields the offline status, with which
\* can_use_app is true and no subscription popup is opened, and which is not
\* the expired status
C19_OfflinePermitsUse ==
    [][\A outcome \in OfflineOutcomes :
         (IsCheckWith(outcome) /\ client.user_key # NoneStr) =>
             /\ result'.returned = offline
             /\ client'.current_status = offline
             /\ can_use_app(client'.current_status)
             /\ client'.popup = client.popup
             /\ client'.current_status # expired("Subscription expired")]_vars

\* the outcomes of a transport failure: timeout, connection error, a
\* response body that is not JSON
TransportFailures ==
    {outcome \in HttpOutcomes :
        \/ outcome.kind \in {"Timeout", "ConnectionError"}
        \/ outcome.kind = "Response" /\ ~outcome.json}

\* the cached status was produced by a check that the portal answered
CachedEntitlement ==
    /\ client.cached_status # NoStatus
    /\ client.cached_status.error_message = NoneStr

\* C20: a status check that fails by timeout, connection error or malformed
\* response leaves a status cached by an earlier answered check as it was;
\* with nothing cached, the cached status becomes the offline status
C20_FailureKeepsCache ==
    [][\A outcome \in TransportFailures :
         (IsCheckWith(outcome) /\ client.user_key # NoneStr) =>
             /\ CachedEntitlement =>
                    client'.cached_status = client.cached_status
             /\ client.cached_status = NoStatus =>
                    client'.cached_status = offline]_vars

\* C21: at most one status check of the client is in flight at any time
C21_SingleCheckInFlight ==
    client.pc = "running" => client.in_flight <= 1

----------------------------------------------------------------------------
(* Claims on the request endpoints, checked under SpecApi, where every     *)
(* step is one request and response' is its answer.                        *)

\* the request answered by this step was sent to one of the endpoints
IsRequestTo(endpoints) ==
    /\ "endpoint" \in DOMAIN response'
    /\ response'.endpoint \in endpoints

\* an action value outside the seven members of the TokenAction enum
IsUnknownAction(action) ==
    /\ action # NoneStr
    /\ action \notin {"credit", "debit", "signup_bonus", "purchase",
                       "vibe_check", "context_sync", "agent_relay"}

ClientError == 400..499

\* C22: a spend request or a POST status request whose action is outside the
\* closed action set, and a checkout request whose plan is neither pro nor
\* lifetime, is answered with a client error and leaves every user,
\* subscription and ledger row as it was (no row is created either)
C22_InvalidInputRejected ==
    [][((\/ /\ IsRequestTo({"POST /api/tokens/spend",
                             "POST /api/check_status"})
            /\ IsUnknownAction(response'.request.action)
         \/ /\ IsRequestTo({"POST /api/checkout"})
            /\ response'.request.plan \notin {"pro", "lifetime"})
        => (/\ response'.status_code \in ClientError
            /\ StoreUnchanged))]_vars

\* an authenticated spend request with an unknown action was answered 400
C22_Witness ==
    /\ "endpoint" \in DOMAIN response
    /\ response.endpoint = "POST /api/tokens/spend"
    /\ response.request.action = "bogus"
    /\ get_user_from_api_key(response.request.x_api_key) = 1
    /\ response.status_code = 400
    /\ token_ledger = <<>>

\* the header carries a key whose hash a non-revoked row of api_keys holds
IsLiveKey(x_api_key) ==
    /\ x_api_key # NoneStr
    /\ \E i \in 1..Len(api_keys) :
          /\ api_keys[i].key_hash = sha256(x_api_key)
          /\ ~api_keys[i].is_revoked

KeyedEndpoints ==
    {"GET /api/check_status", "POST /api/check_status", "GET /api/tokens",
     "POST /api/tokens/spend"}

\* C23: a request to the status, balance or spend endpoint whose key is
\* missing, unknown or revoked is answered 401, invokes neither the access
\* check nor a spend nor the balance query, and leaves users, subscriptions
\* and the ledger unchanged
C23_OnlyLiveKeyAuthenticates ==
    [][(/\ IsRequestTo(KeyedEndpoints)
        /\ ~IsLiveKey(response'.request.x_api_key))
       => (/\ response'.status_code = 401
           /\ call'.op \notin {"check_access", "spend", "get_balance"}
           /\ result' = [raised |-> "HTTPException"]
           /\ StoreUnchanged)]_vars

\* a spend request with the revoked key was answered 401
C23_Witness ==
    /\ "endpoint" \in DOMAIN response
    /\ response.endpoint = "POST /api/tokens/spend"
    /\ response.request.x_api_key = "aegis_old"
    /\ response.request.action = "agent_relay"
    /\ response.status_code = 401

----------------------------------------------------------------------------
(* Claims on the token service and the billing handlers together, checked  *)
(* under SpecServices, where call' names the operation of the step.        *)

TokenServiceOps == {"check_access", "spend", "credit", "get_balance"}
BillingHandlerOps ==
    {"checkout_completed", "subscription_updated", "subscription_deleted"}

\* C24: check_access, spend_tokens, credit_tokens and get_balance leave every
\* subscription row and every lifetime_license flag as they were; the three
\* billing handlers leave every token_balance and the ledger as they were
C24_ServiceFrames ==
    [][/\ call'.op \in TokenServiceOps =>
             (/\ subscriptions' = subscriptions
              /\ \A u \in Users :
                    users'[u].lifetime_license = users[u].lifetime_license)
       /\ call'.op \in BillingHandlerOps =>
             (/\ token_ledger' = token_ledger
              /\ \A u \in Users :
                    users'[u].token_balance = users[u].token_balance)]_vars

\* a deduction was made for a user who holds a pro subscription row that was
\* cancelled, and the row and the ledger entry are both there
C24_Witness ==
    /\ call.op = "spend"
    /\ Len(token_ledger) > 0
    /\ \E i \in 1..Len(subscriptions) : subscriptions[i].status = "cancelled"

----------------------------------------------------------------------------
(* Claims on the commit of a deduction, checked under SpecCommit *)

\* the step appends one entry to the ledger
AppendsEntry ==
    /\ Len(token_ledger') = Len(token_ledger) + 1
    /\ SubSeq(token_ledger', 1, Len(token_ledger)) = token_ledger

\* C25: the balance write and the entry insert of a deduction reach the
\* tables together or not at all, also when the commit fails: a step that
\* lowers a user's token_balance appends an entry, a step that appends an
\* entry with a negative amount leaves the user's token_balance at the
\* entry's balance_after, a step that appends no entry changes no user row,
\* and a request that loads the user reads the token_balance of the table
C25_DeductionAtomic ==
    [][/\ \A u \in Users :
            users'[u].token_balance < users[u].token_balance => AppendsEntry
       /\ IF AppendsEntry
          THEN LET entry == token_ledger'[Len(token_ledger')]
               IN  entry.amount < 0 =>
                       users'[entry.user_id].token_balance =
                           entry.balance_after
          ELSE token_ledger' = token_ledger /\ users' = users
       /\ \A r \in Requests :
            (sessions[r].pc = "start" /\ sessions'[r].pc = "loaded") =>
                sessions'[r].user.token_balance =
                    users[sessions'[r].user.id].token_balance]_vars

\* the commit of a deduction failed, the request was sent again and loaded
\* the user, while the object of the failed session had held a lower balance;
\* the other request committed a deduction
C25_Witness ==
    /\ result = [raised |-> "SQLAlchemyError"]
    /\ token_ledger = <<>>
    /\ \E r \in Requests :
          /\ sessions[r].pc = "loaded"
          /\ sessions[r].user.token_balance = initial_balance
          /\ initial_balance = default_token_balance

----------------------------------------------------------------------------
(* Further claims on the billing handlers, checked under SpecLifecycle *)

\* the step handled a checkout-completed event of an existing user
IsCheckoutOf(user_id, plan) ==
    /\ call'.op = "checkout_completed"
    /\ call'.session.user_id = user_id
    /\ call'.session.plan = plan

\* C26: after every step no user has more than one subscription row; a
\* checkout-completed event leaves the user with exactly one row; for plan
\* lifetime the row has plan lifetime and status lifetime and the user's
\* lifetime_license is set; for plan pro the row has plan pro, status active
\* and the billing reference of the session, and check_access then answers
\* allowed with balance -1
C26_CheckoutTransitions ==
    [][\A u \in Users :
         /\ Cardinality(SubscriptionsOfUser(u)') <= 1
         /\ (IsCheckoutOf(u, "lifetime") \/ IsCheckoutOf(u, "pro")) =>
                Cardinality(SubscriptionsOfUser(u)') = 1
         /\ IsCheckoutOf(u, "lifetime") =>
                LET row == subscriptions'[scalar_one_or_none(SubscriptionsOfUser(u))']
                IN  /\ users'[u].lifetime_license
                    /\ row.plan = "lifetime"
                    /\ row.status = "lifetime"
         /\ IsCheckoutOf(u, "pro") =>
                LET row == subscriptions'[scalar_one_or_none(SubscriptionsOfUser(u))']
                    access == check_access(UserObject(u))'
                IN  /\ row.plan = "pro"
                    /\ row.status = "active"
                    /\ row.stripe_subscription_id = call'.session.subscription
                    /\ access.allowed
                    /\ access.balance = -1]_vars

\* a pro checkout was handled for a user whose row had been cancelled: the
\* row was loaded, not created
C26_Witness ==
    /\ call.op = "checkout_completed"
    /\ call.session.plan = "pro"
    /\ call.session.user_id = 1
    /\ ~users[1].lifetime_license
    /\ Len(subscriptions) = 1
    /\ subscriptions[1].plan = "pro"
    /\ subscriptions[1].cancel_at_period_end

----------------------------------------------------------------------------
(* The lifetime licence, checked under SpecServices *)

\* C27: a lifetime_license that is set stays set over every step (checkout
\* events of any plan, subscription-updated, subscription-deleted, spend,
\* credit, check_access, get_balance), and after the step check_access
\* answers allowed with balance -1
C27_LifetimePermanent ==
    [][\A u \in Users :
         users[u].lifetime_license =>
             /\ users'[u].lifetime_license
             /\ check_access(UserObject(u))'.allowed
             /\ check_access(UserObject(u))'.balance = -1]_vars

\* the billing subscription of a user who bought the lifetime licence after
\* a pro subscription was deleted: the row is free and cancelled, the licence
\* is still set
C27_Witness ==
    /\ call.op = "subscription_deleted"
    /\ users[1].lifetime_license
    /\ Len(subscriptions) = 1
    /\ subscriptions[1].plan = "free"
    /\ subscriptions[1].status = "cancelled"

----------------------------------------------------------------------------
(* Cancellation, checked under SpecLifecycle *)

\* check_access answers the user with unlimited use
Unlimited(u) ==
    /\ check_access(UserObject(u)).allowed
    /\ check_access(UserObject(u)).balance = -1

\* the user has no lifetime licence and no subscription row with a plan
\* other than free: the state a subscription-deleted event leaves
Downgraded(u) ==
    /\ ~users[u].lifetime_license
    /\ \A i \in SubscriptionsOfUser(u) : subscriptions[i].plan = "free"

\* C28: a subscription-deleted event that finds the row of a user without
\* lifetime licence leaves the user downgraded (no licence, plan free); a
\* downgraded user stays downgraded over every step that is not a
\* checkout-completed event, whatever status a subscription-updated event
\* reports; and check_access never answers a downgraded user with unlimited
\* use
C28_CancelledStaysCancelled ==
    [][\A u \in Users :
         /\ (/\ call'.op = "subscription_deleted"
             /\ ~users[u].lifetime_license
             /\ \E i \in SubscriptionsOfUser(u) : IsFoundDelete(i))
                => Downgraded(u)'
         /\ (Downgraded(u) /\ call'.op # "checkout_completed")
                => Downgraded(u)'
         /\ Downgraded(u)' => ~Unlimited(u)']_vars

\* a subscription-updated event with status active arrived for a row that a
\* deletion had downgraded: the row is active again, with plan free
C28_Witness ==
    /\ call.op = "subscription_updated"
    /\ call.stripe_subscription.status = "active"
    /\ ~users[1].lifetime_license
    /\ Len(subscriptions) = 1
    /\ subscriptions[1].plan = "free"
    /\ subscriptions[1].status = "active"
    /\ subscriptions[1].stripe_subscription_id = call.stripe_subscription.id

----------------------------------------------------------------------------
(* The entries of the spend endpoint, checked under SpecApi *)

\* C29: every entry that a request of the spend endpoint appends records a
\* debit: its amount is negative and the response reports tokensUsed above 0,
\* for every action the endpoint accepts
C29_SpendRecordsDebit ==
    [][(IsRequestTo({"POST /api/tokens/spend"}) /\ AppendsEntry) =>
           /\ token_ledger'[Len(token_ledger')].amount < 0
           /\ response'.status_code = 200
           /\ response'.body.tokensUsed > 0]_vars

----------------------------------------------------------------------------
(* The status response as the desktop client reads it, checked under       *)
(* SpecApi                                                                 *)

\* C30: for every 200 response of the status endpoint (GET and POST) the
\* status that the client parses from the body has can_use_app equal to the
\* body's allowed field
C30_ClientAgreesWithAllowed ==
    [][(/\ IsRequestTo({"GET /api/check_status", "POST /api/check_status"})
        /\ response'.status_code = 200)
       => can_use_app(parse_status_response(response'.body))
              = response'.body.allowed]_vars

\* the status endpoint answered a free user without tokens with 200 and
\* allowed false, and the client reads the body as not usable
C30_Witness ==
    /\ "endpoint" \in DOMAIN response
    /\ response.endpoint = "GET /api/check_status"
    /\ response.status_code = 200
    /\ ~response.body.allowed
    /\ response.body.status = "expired"
    /\ ~can_use_app(parse_status_response(response.body))

====
